---- MODULE Spec2Model ----
(***************************************************************************)
(* State-machine model of DatabaseService, the data-access layer of        *)
(* prep-database-integration.  The repository holds two variants of the    *)
(* class:                                                                  *)
(*   - the locking variant (connectionCache, operationLocks,               *)
(*     recentOperations), src/unnamed/part_002 lines 1291-1711: SpecL     *)
(*     (overlapping calls) and SpecT (calls over time);                    *)
(*   - the profile-caching variant (isInitialized, connectionPromise,      *)
(*     currentUser, userProfile), src/unnamed/part_002 lines 126-1217:     *)
(*     SpecP (overlapping calls), SpecA (calls one after another), SpecM  *)
(*     (mutating calls), SpecF (the loaders' filter) and SpecD             *)
(*     (diagnoseConnection in detail).                                     *)
(* SpecV drives the locking variant with arguments that lack an id, SpecE  *)
(* with objects of one key and different items; SpecU applies             *)
(* deduplicatePrepLists; SpecW follows a save from its argument to the     *)
(* row sent, the row stored and the entity returned.                       *)
(* JavaScript runs one synchronous segment at a time; every `await` is a   *)
(* point where other callers may run.  Each action below is one such       *)
(* segment: from a call, or from the resumption after an await, to the     *)
(* next await or to the return.                                            *)
(***************************************************************************)
EXTENDS Integers, Sequences, FiniteSets, TLC

\* ------------------------------------------------------------------ bounds
MaxCalls == 2          \* SpecL: calls in progress at a time
MaxSeqCalls == 1       \* SpecT, SpecA: calls in progress at a time
MaxTime == 3000        \* last value of Date.now() the clock reaches
MaxItems == 1          \* longest items list of a prep list
MaxTasks == 2          \* SpecP: calls in progress at a time
MaxProbes == 2         \* SpecP: connection-test promises alive at a time
MaxRows == 2           \* SpecF: most rows the remote answers a select with
MaxTables == 2         \* SpecD: tables diagnoseConnection() probes
MaxLists == 3          \* SpecU: most lists deduplicatePrepLists is given

\* ------------------------------------------------------- program constants
DUPLICATE_WINDOW == 2000
CACHE_DURATION == 300000
SliceLen == 100

\* The clock advances by half a duplicate window at a time
TickMs == DUPLICATE_WINDOW \div 2

VARIABLES
    \* environment
    now,                \* Date.now()
    hasAccess,          \* localStorage 'prepchef:access_granted' === '1'
    configured,         \* VITE_SUPABASE_URL and VITE_SUPABASE_ANON_KEY are set
    heap,               \* the callers' PrepList objects, by reference
    \* locking variant: static fields
    connectionCache,
    operationLocks,
    recentOperations,
    \* locking variant: one record per call
    pc, op, arg, key, tnow, conn, sent, invoked, outcome, result, waitFor,
    \* profile-caching variant: static fields
    isInitialized,
    connectionPromise,  \* null, or a promise: pending on a probe, or resolved
    currentUser,        \* "null" or the id of the user
    userProfile,        \* "null" or the id of the profile row held
    \* profile-caching variant: the auth client
    listeners,          \* onAuthStateChange listeners registered
    \* profile-caching variant: calls in progress
    autoInit,           \* the initialize() call made at import
    probe,              \* the calls of _performConnectionTest in progress
    task, kind, awaits, subject, input, taskResult,
    \* which auth transition, if any, the last step was
    lastAuth,
    \* environment of the loaders and of diagnoseConnection
    hasUrl,             \* Boolean(import.meta.env.VITE_SUPABASE_URL)
    hasKey,             \* Boolean(import.meta.env.VITE_SUPABASE_ANON_KEY)
    remoteRows,         \* the data the remote answers a select with
    \* a loader's operation function and its return value
    loaded,
    \* diagnoseConnection(): where the call is, and its report object
    diag, diagnosis,
    \* a save seen at the wire: the entity given, the row sent, the row the
    \* remote answers with and the entity returned
    wire

varsL == <<now, hasAccess, configured, heap, connectionCache, operationLocks,
           recentOperations, pc, op, arg, key, tnow, conn, sent, invoked,
           outcome, result, waitFor>>

varsP == <<isInitialized, connectionPromise, currentUser, userProfile,
           listeners, autoInit, probe, task, kind, awaits,
           subject, input, taskResult, lastAuth>>

varsD == <<hasUrl, hasKey, remoteRows, loaded, diag, diagnosis, wire>>

vars == <<varsL, varsP, varsD>>

\* ------------------------------------------------------------------ values
Calls == 1..(IF MaxCalls > MaxSeqCalls THEN MaxCalls ELSE MaxSeqCalls)
OverlappingCalls == 1..MaxCalls
SeqCalls == 1..MaxSeqCalls

PrepObjs == {"o1", "o2", "o3"}
Editable == {"o1"}
EventArgs == {"e1"}
RecipeArgs == {"r1"}
DeleteIds == {"p1"}

Tasks == 1..MaxTasks
Probes == 1..MaxProbes
Users == {"u1", "u2"}
Sessions == Users \cup {"null"}

NoCache == [set |-> FALSE, isConnected |-> FALSE, lastCheck |-> 0]
\* What a variable for a Promise<boolean> | null can hold
NoPromise == [state |-> "null", id |-> 0, value |-> FALSE]
PendingOn(p) == [state |-> "pending", id |-> p, value |-> FALSE]
Resolved(value) == [state |-> "resolved", id |-> 0, value |-> value]

\* The `data` of a select answered without rows to give, and a loader's
\* return value before the loader has run
NullData == [isNull |-> TRUE, rows |-> <<>>]
NotLoaded == [set |-> FALSE, call |-> "", rows |-> <<>>]

\* JavaScript values, by type
Undefined == [tag |-> "undefined"]
Null == [tag |-> "null"]
NaN == [tag |-> "NaN"]
Num(n) == [tag |-> "number", val |-> n]
Str(chars) == [tag |-> "string", chars |-> chars]
Arr(elems) == [tag |-> "array", elems |-> elems]
Obj == [tag |-> "object"]

\* The items of the `data` array of a select: null, or a row with its id, its
\* name and its array column (items, prep_items, ingredients, tags, ...)
NullItem == [isNull |-> TRUE, id |-> "", name |-> <<>>, items |-> Null]
Items ==
    {NullItem} \cup [isNull : {FALSE}, id : {"", "p1", "p2"},
                     name : {<<>>, <<"A">>},
                     items : {Null, Obj, Arr(<<"i1">>)}]
RECURSIVE SeqsUpTo(_, _)
SeqsUpTo(S, n) ==
    IF n = 0 THEN {<<>>}
    ELSE LET shorter == SeqsUpTo(S, n - 1) IN
         shorter \cup {Append(q, x) : q \in shorter, x \in S}
RemoteData == {NullData} \cup [isNull : {FALSE}, rows : SeqsUpTo(Items, MaxRows)]
\* diagnoseConnection() when no call of it is in progress: where the call is,
\* the table its loop is at, the local rlsEnabled, the probes that failed
\* and the number of requests sent so far
NoDiagnose == [pc |-> "idle", table |-> 0, rlsEnabled |-> FALSE, failed |-> {},
               requests |-> 0]
NoDiagnosis == [set |-> FALSE]
NoWire == [pc |-> "idle"]
\* const diagnosis = {...}
NewDiagnosis ==
    [configured |-> FALSE, accessible |-> FALSE, authenticated |-> FALSE,
     tables |-> <<>>, errors |-> <<>>, user |-> "null", userProfile |-> "null",
     rlsStatus |-> <<>>]
\* tablesToTest and rlsQueries, by position
tablesToTest == 1..MaxTables

\* Strings that get trimmed are sequences of characters
Ids == {<<>>, <<" ">>, <<" ", "p">>}
Names == {<<>>, <<" ">>, <<" ", "A", " ">>}
Dates == {"", "2024-01-01"}
SaveCalls == {"savePrepList", "saveEvent", "saveRecipe", "saveMethod"}
LoadCalls == {"loadPrepLists", "loadEvents", "loadRecipes", "loadMethods"}
Entities == [id : {<<>>, <<"p">>}, name : Names, date : Dates, user_id : {"null"}]
\* Only an Event has a date
EntitiesOf(call) == IF call = "saveEvent" THEN Entities ELSE {e \in Entities : e.date = ""}

\* The argument of a call, then the row or the id its request carries
NoInput == [id |-> <<>>, name |-> <<>>, date |-> "", user_id |-> "null"]

NoResult == [call |-> "", value |-> ""]
NoAuth == [kind |-> "none", user |-> "null"]
NoSent == [set |-> FALSE, kind |-> "", table |-> "", id |-> "", name |-> "", items |-> <<>>]
NoOutcome == [kind |-> "none", val |-> "", by |-> 0]
NoKey == [kind |-> "", id |-> "", name |-> "", json |-> <<>>]

EventVal(e) == [id |-> e, name |-> "Gala"]
RecipeVal(r) == [id |-> r, name |-> "Stock"]

\* Map<K, V> as a function whose DOMAIN is the set of keys present
MapHas(m, k) == k \in DOMAIN m
MapSet(m, k, v) == [x \in (DOMAIN m) \cup {k} |-> IF x = k THEN v ELSE m[x]]
MapDelete(m, k) == [x \in (DOMAIN m) \ {k} |-> m[x]]
EmptyMap == [x \in {} |-> 0]

Min(a, b) == IF a < b THEN a ELSE b

\* JSON.stringify of a record: the sequence of its field values, one element
\* per field, so that two payloads serialize identically exactly when all
\* their fields agree.
JSONstringify(d) ==
    IF "items" \in DOMAIN d THEN <<d.id, d.name, d.items, d.company_id>>
    ELSE <<d.id, d.name>>

\* String.prototype.slice(0, 100), at the granularity of JSONstringify
Slice(s) == SubSeq(s, 1, Min(Len(s), SliceLen))

\* generateOperationKey(operation, data)
generateOperationKey(operation, data) ==
    IF operation = "savePrepList" /\ data.id # ""
    THEN [kind |-> "prepList", id |-> data.id,
          name |-> IF data.name # "" THEN data.name ELSE "unnamed", json |-> <<>>]
    ELSE IF operation = "saveEvent" /\ data.id # ""
    THEN [kind |-> "event", id |-> data.id,
          name |-> IF data.name # "" THEN data.name ELSE "unnamed", json |-> <<>>]
    ELSE [kind |-> operation, id |-> "", name |-> "", json |-> Slice(JSONstringify(data))]

deleteKey(id) == [kind |-> "deletePrepList", id |-> id, name |-> "", json |-> <<>>]

\* ----------------------------------------------------------- initial state
\* The profile-caching variant once its module has been imported: the static
\* fields as declared, and the auto-initialize call waiting for getSession()
InitProfileFields ==
    /\ isInitialized = FALSE
    /\ connectionPromise = NoPromise
    /\ currentUser = "null"
    /\ userProfile = "null"
    /\ listeners = 0
    /\ autoInit = "getSession"
    /\ probe = [p \in Probes |-> "free"]
    /\ task = [t \in Tasks |-> "idle"]
    /\ kind = [t \in Tasks |-> ""]
    /\ awaits = [t \in Tasks |-> NoPromise]
    /\ subject = [t \in Tasks |-> "null"]
    /\ input = [t \in Tasks |-> NoInput]
    /\ taskResult = NoResult
    /\ lastAuth = NoAuth

\* The loaders and diagnoseConnection() before any call of them
InitReportFields ==
    /\ remoteRows = NullData
    /\ loaded = NotLoaded
    /\ diag = NoDiagnose
    /\ diagnosis = NoDiagnosis
    /\ wire = NoWire

\* The static fields of the locking variant as declared, and no call made
InitCallFields ==
    /\ now = 0
    /\ connectionCache = NoCache
    /\ operationLocks = EmptyMap
    /\ recentOperations = EmptyMap
    /\ pc = [c \in Calls |-> "idle"]
    /\ op = [c \in Calls |-> ""]
    /\ arg = [c \in Calls |-> ""]
    /\ key = [c \in Calls |-> NoKey]
    /\ tnow = [c \in Calls |-> 0]
    /\ conn = [c \in Calls |-> FALSE]
    /\ sent = [c \in Calls |-> NoSent]
    /\ invoked = [c \in Calls |-> FALSE]
    /\ outcome = [c \in Calls |-> NoOutcome]
    /\ result = [c \in Calls |-> NoOutcome]
    /\ waitFor = [c \in Calls |-> 0]

\* The objects the callers hold, and the static fields
InitLockingFields ==
    /\ heap = [o \in PrepObjs |->
                 [id |-> IF o = "o3" THEN "" ELSE "p1", name |-> "Dinner",
                  items |-> <<>>, company_id |-> "c1"]]
    /\ InitCallFields

\* The locking variant once its class has been loaded
InitL ==
    /\ hasAccess \in BOOLEAN
    /\ configured \in BOOLEAN
    /\ hasUrl = configured
    /\ hasKey = configured
    /\ InitLockingFields
    /\ InitProfileFields
    /\ InitReportFields

\* ------------------------------------------------- locking variant: helpers
\* A caller makes a call, which takes the first free record
CanCall(c) ==
    /\ pc[c] = "idle"
    /\ \A d \in Calls : d < c => pc[d] # "idle"

\* isDuplicateOperation: now - recent.timestamp > DUPLICATE_WINDOW
isExpired_atWindow(recent) == now - recent.timestamp >= DUPLICATE_WINDOW
isExpired(recent) == now - recent.timestamp > DUPLICATE_WINDOW

\* isDuplicateOperation(operationKey, data): the value it returns.  recent.data
\* is the reference savePrepList stored, serialized as the object is now.
isDuplicateOperation(operationKey, data) ==
    /\ MapHas(recentOperations, operationKey)
    /\ ~isExpired(recentOperations[operationKey])
    /\ JSONstringify(heap[recentOperations[operationKey].data]) = JSONstringify(data)

\* isDuplicateOperation(operationKey, data): recentOperations after the lookup
recentAfterLookup(operationKey) ==
    IF MapHas(recentOperations, operationKey)
       /\ isExpired(recentOperations[operationKey])
    THEN MapDelete(recentOperations, operationKey)
    ELSE recentOperations

\* executeWithLock: const existingOperation = this.operationLocks.get(key)
existingOperation_ignored(operationKey) == FALSE
existingOperation(operationKey) == MapHas(operationLocks, operationKey)

\* executeWithLock: operation().finally(() => this.operationLocks.delete(key))
locksAfterSettle_onSuccessOnly(operationKey, out) ==
    IF out.kind = "value" THEN MapDelete(operationLocks, operationKey)
    ELSE operationLocks
locksAfterSettle(operationKey, out) == MapDelete(operationLocks, operationKey)

\* The microtask queue is empty: no continuation of an already settled promise
\* is waiting to run.  Timers and network answers are delivered only then.
MicrotasksDrained == \A c \in Calls : pc[c] \notin {"tcDone", "settled"}

Locked(c) == op[c] \in {"savePrepList", "deletePrepList"}

\* testConnection(), from the call to its first await or to its return
testConnection(c) ==
    IF connectionCache.set /\ (now - connectionCache.lastCheck) < CACHE_DURATION
    THEN /\ conn' = [conn EXCEPT ![c] = connectionCache.isConnected]
         /\ pc' = [pc EXCEPT ![c] = "tcDone"]
         /\ UNCHANGED <<connectionCache, tnow>>
    ELSE IF ~hasAccess \/ ~configured
    THEN /\ connectionCache' = [set |-> TRUE, isConnected |-> FALSE, lastCheck |-> now]
         /\ conn' = [conn EXCEPT ![c] = FALSE]
         /\ pc' = [pc EXCEPT ![c] = "tcDone"]
         /\ UNCHANGED tnow
    ELSE /\ tnow' = [tnow EXCEPT ![c] = now]
         /\ pc' = [pc EXCEPT ![c] = "tcProbe"]
         /\ UNCHANGED <<connectionCache, conn>>

\* executeWithLock(operationKey, operation), called by call c
executeWithLock(c, operationKey) ==
    IF existingOperation(operationKey)
    THEN /\ waitFor' = [waitFor EXCEPT ![c] = operationLocks[operationKey]]
         /\ pc' = [pc EXCEPT ![c] = "joined"]
         /\ UNCHANGED <<operationLocks, connectionCache, tnow, conn, invoked>>
    ELSE /\ operationLocks' = MapSet(operationLocks, operationKey, c)
         /\ invoked' = [invoked EXCEPT ![c] = TRUE]
         /\ testConnection(c)
         /\ UNCHANGED waitFor

\* The operation of call c settles with `out`: under executeWithLock the
\* .finally callback is still to run; otherwise the caller has its result.
Settle(c, out) ==
    IF Locked(c)
    THEN /\ outcome' = [outcome EXCEPT ![c] = out]
         /\ pc' = [pc EXCEPT ![c] = "settled"]
         /\ UNCHANGED result
    ELSE /\ result' = [result EXCEPT ![c] = out]
         /\ pc' = [pc EXCEPT ![c] = "done"]
         /\ UNCHANGED outcome

Value(c) == [kind |-> "value", val |-> "row", by |-> c]
Failure(c, why) == [kind |-> "error", val |-> why, by |-> c]

\* ------------------------------------------------- locking variant: actions
\* savePrepList(prepList), from the call to its first await or to its return
savePrepList(c, o) ==
    /\ UNCHANGED <<varsP, varsD>>
    /\ CanCall(c)
    /\ LET operationKey == generateOperationKey("savePrepList", heap[o]) IN
       /\ op' = [op EXCEPT ![c] = "savePrepList"]
       /\ arg' = [arg EXCEPT ![c] = o]
       /\ key' = [key EXCEPT ![c] = operationKey]
       /\ recentOperations' = recentAfterLookup(operationKey)
       /\ IF isDuplicateOperation(operationKey, heap[o])
          THEN /\ result' = [result EXCEPT ![c] = [kind |-> "input", val |-> o, by |-> c]]
               /\ pc' = [pc EXCEPT ![c] = "done"]
               /\ UNCHANGED <<operationLocks, connectionCache, tnow, conn,
                              invoked, waitFor>>
          ELSE /\ executeWithLock(c, operationKey)
               /\ UNCHANGED result
    /\ UNCHANGED <<now, hasAccess, configured, heap, sent, outcome>>

\* deletePrepList(id), from the call to its first await
deletePrepList(c, id) ==
    /\ UNCHANGED <<varsP, varsD>>
    /\ CanCall(c)
    /\ op' = [op EXCEPT ![c] = "deletePrepList"]
    /\ arg' = [arg EXCEPT ![c] = id]
    /\ key' = [key EXCEPT ![c] = deleteKey(id)]
    /\ executeWithLock(c, deleteKey(id))
    /\ UNCHANGED <<now, hasAccess, configured, heap, recentOperations, sent,
                   outcome, result>>

\* saveEvent(event), from the call to its first await: no key, no lock
saveEvent(c, e) ==
    /\ UNCHANGED <<varsP, varsD>>
    /\ CanCall(c)
    /\ op' = [op EXCEPT ![c] = "saveEvent"]
    /\ arg' = [arg EXCEPT ![c] = e]
    /\ invoked' = [invoked EXCEPT ![c] = TRUE]
    /\ testConnection(c)
    /\ UNCHANGED <<now, hasAccess, configured, heap, operationLocks,
                   recentOperations, key, sent, outcome, result, waitFor>>

\* saveRecipe(recipe), from the call to its first await: no key, no lock
saveRecipe(c, r) ==
    /\ UNCHANGED <<varsP, varsD>>
    /\ CanCall(c)
    /\ op' = [op EXCEPT ![c] = "saveRecipe"]
    /\ arg' = [arg EXCEPT ![c] = r]
    /\ invoked' = [invoked EXCEPT ![c] = TRUE]
    /\ testConnection(c)
    /\ UNCHANGED <<now, hasAccess, configured, heap, operationLocks,
                   recentOperations, key, sent, outcome, result, waitFor>>

\* testConnection(), resumed by the answer to its select: answer is "ok" or
\* "error" (an error value, or the request throws: both leave isConnected false)
ProbeResponse(c, answer) ==
    /\ UNCHANGED <<varsP, varsD>>
    /\ pc[c] = "tcProbe"
    /\ MicrotasksDrained
    /\ connectionCache' = [set |-> TRUE, isConnected |-> (answer = "ok"),
                           lastCheck |-> tnow[c]]
    /\ conn' = [conn EXCEPT ![c] = (answer = "ok")]
    /\ tnow' = [tnow EXCEPT ![c] = 0]
    /\ pc' = [pc EXCEPT ![c] = "tcDone"]
    /\ UNCHANGED <<now, hasAccess, configured, heap, operationLocks,
                   recentOperations, op, arg, key, sent, invoked, outcome,
                   result, waitFor>>

\* The row an operation sends once the connection test has passed
Request(c) ==
    CASE op[c] = "savePrepList" ->
           [set |-> TRUE, kind |-> "upsert", table |-> "prep_lists",
            id |-> heap[arg[c]].id, name |-> heap[arg[c]].name,
            items |-> heap[arg[c]].items]
      [] op[c] = "deletePrepList" ->
           [set |-> TRUE, kind |-> "delete", table |-> "prep_lists",
            id |-> arg[c], name |-> "", items |-> <<>>]
      [] op[c] = "saveEvent" ->
           [set |-> TRUE, kind |-> "upsert", table |-> "events",
            id |-> EventVal(arg[c]).id, name |-> EventVal(arg[c]).name,
            items |-> <<>>]
      [] OTHER ->
           [set |-> TRUE, kind |-> "upsert", table |-> "recipes",
            id |-> RecipeVal(arg[c]).id, name |-> RecipeVal(arg[c]).name,
            items |-> <<>>]

\* An operation resumed by the result of `await this.testConnection()`
AfterTestConnection(c) ==
    /\ UNCHANGED <<varsP, varsD>>
    /\ pc[c] = "tcDone"
    /\ conn' = [conn EXCEPT ![c] = FALSE]
    /\ IF ~conn[c]
       THEN Settle(c, Failure(c, "connection")) /\ UNCHANGED sent
       ELSE IF op[c] = "savePrepList"
               /\ (heap[arg[c]].id = "" \/ heap[arg[c]].name = "")
       THEN Settle(c, Failure(c, "invalid")) /\ UNCHANGED sent
       ELSE /\ sent' = [sent EXCEPT ![c] = Request(c)]
            /\ pc' = [pc EXCEPT ![c] = "mutating"]
            /\ UNCHANGED <<outcome, result>>
    /\ UNCHANGED <<now, hasAccess, configured, heap, connectionCache,
                   operationLocks, recentOperations, op, arg, key, tnow,
                   invoked, waitFor>>

\* savePrepList: this.recentOperations.set(operationKey, {timestamp, data}),
\* which follows a successful upsert only; data is the reference passed in.
\* `written` is history, not a field of the entry: the id, name and items
\* the upsert carried, which no code reads.
recordedAfter(c, answer) ==
    IF answer = "ok" /\ op[c] = "savePrepList"
    THEN MapSet(recentOperations, key[c],
                [timestamp |-> now, data |-> arg[c],
                 written |-> <<sent[c].id, sent[c].name, sent[c].items>>])
    ELSE recentOperations

\* An operation resumed by the answer to its upsert or delete: answer is
\* "ok", "23505" (duplicate key) or "error" (any other error)
MutationResponse(c, answer) ==
    /\ UNCHANGED <<varsP, varsD>>
    /\ pc[c] = "mutating"
    /\ MicrotasksDrained
    /\ recentOperations' = recordedAfter(c, answer)
    /\ IF answer = "ok"
       THEN Settle(c, Value(c))
       ELSE IF answer = "23505" /\ op[c] = "savePrepList"
       THEN /\ pc' = [pc EXCEPT ![c] = "fetchExisting"]
            /\ UNCHANGED <<outcome, result>>
       ELSE Settle(c, Failure(c, answer))
    /\ UNCHANGED <<now, hasAccess, configured, heap, connectionCache,
                   operationLocks, op, arg, key, tnow, conn, sent, invoked,
                   waitFor>>

\* savePrepList resumed by the select of the existing row (23505 branch)
FetchExistingResponse(c, existing) ==
    /\ UNCHANGED <<varsP, varsD>>
    /\ pc[c] = "fetchExisting"
    /\ MicrotasksDrained
    /\ IF existing
       THEN Settle(c, [kind |-> "value", val |-> "existing", by |-> c])
       ELSE Settle(c, Failure(c, "23505"))
    /\ UNCHANGED <<now, hasAccess, configured, heap, connectionCache,
                   operationLocks, recentOperations, op, arg, key, tnow, conn,
                   sent, invoked, waitFor>>

\* executeWithLock: the .finally callback of call c's operation runs, then
\* operationPromise settles for c and for every caller that was handed it
Finally(c) ==
    /\ UNCHANGED <<varsP, varsD>>
    /\ pc[c] = "settled"
    /\ outcome' = [outcome EXCEPT ![c] = NoOutcome]
    /\ operationLocks' = locksAfterSettle(key[c], outcome[c])
    /\ result' = [d \in Calls |->
                    IF d = c \/ (pc[d] = "joined" /\ waitFor[d] = c)
                    THEN outcome[c] ELSE result[d]]
    /\ pc' = [d \in Calls |->
                IF d = c \/ (pc[d] = "joined" /\ waitFor[d] = c)
                THEN "done" ELSE pc[d]]
    /\ UNCHANGED <<now, hasAccess, configured, heap, connectionCache,
                   recentOperations, op, arg, key, tnow, conn, sent, invoked,
                   waitFor>>

\* The caller of call c has received its result
Return(c) ==
    /\ UNCHANGED <<varsP, varsD>>
    /\ pc[c] = "done"
    /\ pc' = [pc EXCEPT ![c] = "idle"]
    /\ op' = [op EXCEPT ![c] = ""]
    /\ arg' = [arg EXCEPT ![c] = ""]
    /\ key' = [key EXCEPT ![c] = NoKey]
    /\ sent' = [sent EXCEPT ![c] = NoSent]
    /\ invoked' = [invoked EXCEPT ![c] = FALSE]
    /\ result' = [result EXCEPT ![c] = NoOutcome]
    /\ waitFor' = [waitFor EXCEPT ![c] = 0]
    /\ UNCHANGED <<now, hasAccess, configured, heap, connectionCache,
                   operationLocks, recentOperations, tnow, conn, outcome>>

\* A caller edits, in place, a PrepList object it owns
EditInPlace(o) ==
    /\ UNCHANGED <<varsP, varsD>>
    /\ Len(heap[o].items) < MaxItems
    /\ heap' = [heap EXCEPT ![o].items = Append(@, "i1")]
    /\ UNCHANGED <<now, hasAccess, configured, connectionCache, operationLocks,
                   recentOperations, pc, op, arg, key, tnow, conn, sent,
                   invoked, outcome, result, waitFor>>

\* Time passes
Tick ==
    /\ UNCHANGED <<varsP, varsD>>
    /\ now + TickMs <= MaxTime
    /\ MicrotasksDrained
    /\ now' = now + TickMs
    /\ UNCHANGED <<hasAccess, configured, heap, connectionCache, operationLocks,
                   recentOperations, pc, op, arg, key, tnow, conn, sent,
                   invoked, outcome, result, waitFor>>

\* refreshConnectionCache(): "call after auth changes"
refreshConnectionCache ==
    /\ UNCHANGED <<varsP, varsD>>
    /\ connectionCache' = NoCache
    /\ UNCHANGED <<now, hasAccess, configured, heap, operationLocks,
                   recentOperations, pc, op, arg, key, tnow, conn, sent,
                   invoked, outcome, result, waitFor>>

\* The steps of the calls in the records S
CallStep(S) ==
    \/ \E c \in S, o \in PrepObjs : savePrepList(c, o)
    \/ \E c \in S, id \in DeleteIds : deletePrepList(c, id)
    \/ \E c \in S, e \in EventArgs : saveEvent(c, e)
    \/ \E c \in S, r \in RecipeArgs : saveRecipe(c, r)
    \/ \E c \in S, answer \in {"ok", "error"} : ProbeResponse(c, answer)
    \/ \E c \in S : AfterTestConnection(c)
    \/ \E c \in S, answer \in {"ok", "23505", "error"} : MutationResponse(c, answer)
    \/ \E c \in S, existing \in BOOLEAN : FetchExistingResponse(c, existing)
    \/ \E c \in S : Finally(c)
    \/ \E c \in S : Return(c)

\* SpecL: overlapping calls, all made at one reading of the clock
NextL ==
    \/ CallStep(OverlappingCalls)
    \/ refreshConnectionCache

SpecL == InitL /\ [][NextL]_vars

\* SpecE: overlapping calls whose callers hold objects with one id and one
\* name and with different items
InitE ==
    /\ hasAccess \in BOOLEAN
    /\ configured \in BOOLEAN
    /\ hasUrl = configured
    /\ hasKey = configured
    /\ heap = [o \in PrepObjs |->
                 [id |-> IF o = "o3" THEN "" ELSE "p1", name |-> "Dinner",
                  items |-> IF o = "o1" THEN <<>> ELSE SubSeq(<<"i1">>, 1, MaxItems),
                  company_id |-> "c1"]]
    /\ InitCallFields
    /\ InitProfileFields
    /\ InitReportFields

NextE ==
    \/ CallStep(OverlappingCalls)
    \/ refreshConnectionCache

SpecE == InitE /\ [][NextE]_vars

\* SpecT: calls over time, on objects their callers may edit in between
NextT ==
    \/ CallStep(SeqCalls)
    \/ refreshConnectionCache
    \/ \E o \in Editable : EditInPlace(o)
    \/ Tick

SpecT == InitL /\ [][NextT]_vars

\* Calls whose argument lacks a required field: an empty id
InvalidArgsStep(S) ==
    \/ \E c \in S : deletePrepList(c, "")
    \/ \E c \in S : saveEvent(c, "")
    \/ \E c \in S : saveRecipe(c, "")

\* SpecV: calls made one after another, with valid and with invalid arguments
NextV ==
    \/ CallStep(SeqCalls)
    \/ InvalidArgsStep(SeqCalls)
    \/ refreshConnectionCache

SpecV == InitL /\ [][NextV]_vars

\* ============================================================================
\* The profile-caching variant
\* ============================================================================
InitP == InitL /\ hasAccess

\* A connection test that has been started and has not resolved
InFlight == {"getSession", "initialized", "select", "rlsSession"}

\* The record a new promise of _performConnectionTest() takes
FreeProbe(p) ==
    /\ probe[p] = "free"
    /\ \A q \in Probes : q < p => probe[q] # "free"

CanStart(t) ==
    /\ task[t] = "idle"
    /\ \A u \in Tasks : u < t => task[u] # "idle"

\* No continuation of a settled promise is waiting to run
NoMicrotask ==
    /\ \A p \in Probes : probe[p] # "initialized"
    /\ \A t \in Tasks :
          /\ task[t] # "profileDone"
          /\ ~(task[t] = "testConnection" /\ awaits[t].state = "resolved")

NotAnAuthTransition == lastAuth' = NoAuth
NoReturn == taskResult' = NoResult

\* Call t starts as a call of `call` and reaches its first await
Start(t, call, at, who) ==
    /\ CanStart(t)
    /\ kind' = [kind EXCEPT ![t] = call]
    /\ task' = [task EXCEPT ![t] = at]
    /\ subject' = [subject EXCEPT ![t] = who]
    /\ UNCHANGED input
    /\ NoReturn

\* Call t starts as a call of `call` with the argument `in` and reaches its
\* first await
StartWith(t, call, at, in) ==
    /\ CanStart(t)
    /\ kind' = [kind EXCEPT ![t] = call]
    /\ task' = [task EXCEPT ![t] = at]
    /\ input' = [input EXCEPT ![t] = in]
    /\ UNCHANGED subject
    /\ NoReturn

\* Call t reaches its next await
Goto(t, at, who) ==
    /\ task' = [task EXCEPT ![t] = at]
    /\ subject' = [subject EXCEPT ![t] = who]
    /\ UNCHANGED <<kind, input>>
    /\ NoReturn

\* Call t sends `row` with its request and awaits the answer
Send(t, at, row) ==
    /\ task' = [task EXCEPT ![t] = at]
    /\ subject' = [subject EXCEPT ![t] = "null"]
    /\ input' = [input EXCEPT ![t] = row]
    /\ UNCHANGED kind
    /\ NoReturn

\* Call t returns `how` to its caller
Finish(t, how) ==
    /\ task' = [task EXCEPT ![t] = "idle"]
    /\ kind' = [kind EXCEPT ![t] = ""]
    /\ subject' = [subject EXCEPT ![t] = "null"]
    /\ input' = [input EXCEPT ![t] = NoInput]
    /\ taskResult' = [call |-> kind[t], value |-> how]

\* The promise of connection test p resolves to `value`: whatever holds the
\* promise now holds a resolved one
Resolve(p, value) ==
    /\ probe' = [probe EXCEPT ![p] = "free"]
    /\ connectionPromise' = IF connectionPromise = PendingOn(p)
                            THEN Resolved(value) ELSE connectionPromise
    /\ awaits' = [t \in Tasks |-> IF awaits[t] = PendingOn(p)
                                  THEN Resolved(value) ELSE awaits[t]]

\* initialize() after its await of getSession(): the session is there
initializeResume(session) ==
    /\ currentUser' = session
    /\ listeners' = listeners + 1
    /\ isInitialized' = TRUE

\* The callback given to onAuthStateChange
onAuthStateChange_keepsProfile(session) ==
    /\ currentUser' = session
    /\ connectionPromise' = NoPromise
    /\ UNCHANGED userProfile
onAuthStateChange(session) ==
    /\ currentUser' = session
    /\ userProfile' = "null"
    /\ connectionPromise' = NoPromise

\* testConnection(), called by call t
testConnectionMemo(t) ==
    IF connectionPromise # NoPromise
    THEN /\ awaits' = [awaits EXCEPT ![t] = connectionPromise]
         /\ UNCHANGED <<connectionPromise, probe>>
    ELSE \E p \in Probes :
            /\ FreeProbe(p)
            /\ connectionPromise' = PendingOn(p)
            /\ awaits' = [awaits EXCEPT ![t] = PendingOn(p)]
            \* _performConnectionTest() up to its await of initialize()
            /\ probe' = [probe EXCEPT ![p] =
                            IF isInitialized THEN "initialized" ELSE "getSession"]

\* ensureUserProfile(), called by call t when the current user is `user`,
\* from the call to its first await or to its return.  At "profileDone" the
\* call holds the value ensureUserProfile() returned.
ensureUserProfile(t, user) ==
    IF user = "null" \/ userProfile # "null"
    THEN Goto(t, "profileDone", IF user = "null" THEN "null" ELSE userProfile)
    ELSE Goto(t, "profileFetch", user)

\* ensureUserProfile() after its upsert: the profile cache.  `created` is the
\* row the upsert returns
userProfileAfterUpsert_evenOnError(answer, created) == created
userProfileAfterUpsert(answer, created) ==
    IF answer = "ok" THEN created ELSE userProfile

\* String.prototype.trim() on a sequence of characters
RECURSIVE trimStart(_)
trimStart(str) ==
    IF str # <<>> /\ Head(str) = " " THEN trimStart(Tail(str)) ELSE str

RECURSIVE trimEnd(_)
trimEnd(str) ==
    IF str # <<>> /\ str[Len(str)] = " "
    THEN trimEnd(SubSeq(str, 1, Len(str) - 1)) ELSE str

trim(str) == trimEnd(trimStart(str))

\* The check of the required fields that opens the operation function of a
\* save: !x.id || !x.name?.trim(), and || !event.date for an event
invalidFields(call, entity) ==
    \/ entity.id = <<>>
    \/ trim(entity.name) = <<>>
    \/ (call = "saveEvent" /\ entity.date = "")

\* The check that follows it: !this.currentUser
identityMissing_unchecked(user) == FALSE
identityMissing(user) == user = "null"

\* The row a save sends: the sanitized entity
sanitized(entity, user) ==
    [id |-> entity.id, name |-> trim(entity.name), date |-> entity.date,
     user_id |-> user]

\* The catch block of executeWithErrorHandling(): what it throws for an error
\* with this code, or with a message that mentions this
reclassify(error) ==
    CASE error = "42P01" -> "Table not found"
      [] error \in {"42501", "RLS"} -> "Access denied"
      [] error = "23505" -> "Duplicate entry detected"
      [] error = "JWT" -> "Authentication token invalid"
      [] OTHER -> error

\* The operation function fn() of call t, from its call to its first await or
\* to its throw
operationFunction(t) ==
    IF kind[t] \in SaveCalls
    THEN IF invalidFields(kind[t], input[t])
         THEN Finish(t, reclassify("must have a valid ID and name"))
         ELSE IF identityMissing(currentUser)
         THEN Finish(t, reclassify("Authentication required"))
         ELSE Send(t, "upsert", sanitized(input[t], currentUser))
    ELSE IF kind[t] = "deletePrepList"
    THEN IF trim(input[t].id) = <<>>
         THEN Finish(t, reclassify("Valid ID required for deletion"))
         ELSE Send(t, "delete", [input[t] EXCEPT !.id = trim(input[t].id)])
    ELSE Goto(t, "query", "null")

\* ------------------------------------------ profile-caching variant: actions
\* The call of initialize() made at import gets the answer of getSession()
AutoInitializeResponse(answer) ==
    /\ UNCHANGED <<varsL, varsD>>
    /\ NotAnAuthTransition
    /\ NoReturn
    /\ autoInit = "getSession"
    /\ NoMicrotask
    /\ autoInit' = "returned"
    /\ IF answer = "throw"
       THEN UNCHANGED <<currentUser, listeners, isInitialized>>
       ELSE initializeResume(answer)
    /\ UNCHANGED <<connectionPromise, userProfile, probe, task, kind, input, awaits,
                   subject>>

\* loadPrepLists(), from the call to the await of testConnection()
loadPrepLists(t) ==
    /\ UNCHANGED <<varsL, varsD>>
    /\ NotAnAuthTransition
    /\ Start(t, "loadPrepLists", "testConnection", "null")
    /\ testConnectionMemo(t)
    /\ UNCHANGED <<isInitialized, currentUser, userProfile, listeners, autoInit>>

\* initialize(), called by connection test p, gets the answer of getSession()
InitializeResponse(p, answer) ==
    /\ UNCHANGED <<varsL, varsD>>
    /\ NotAnAuthTransition
    /\ NoReturn
    /\ probe[p] = "getSession"
    /\ NoMicrotask
    /\ IF answer = "throw"
       THEN /\ Resolve(p, FALSE)
            /\ UNCHANGED <<currentUser, listeners, isInitialized>>
       ELSE /\ probe' = [probe EXCEPT ![p] = "initialized"]
            /\ initializeResume(answer)
            /\ UNCHANGED <<connectionPromise, awaits>>
    /\ UNCHANGED <<userProfile, autoInit, task, kind, input, subject>>

\* _performConnectionTest() after its await of initialize()
AfterInitialize(p) ==
    /\ UNCHANGED <<varsL, varsD>>
    /\ NotAnAuthTransition
    /\ NoReturn
    /\ probe[p] = "initialized"
    /\ IF ~configured
       THEN Resolve(p, FALSE)
       ELSE /\ probe' = [probe EXCEPT ![p] = "select"]
            /\ UNCHANGED <<connectionPromise, awaits>>
    /\ UNCHANGED <<isInitialized, currentUser, userProfile, listeners, autoInit,
                   task, kind, input, subject>>

\* _performConnectionTest() gets the answer of its query
SelectResponse(p, answer) ==
    /\ UNCHANGED <<varsL, varsD>>
    /\ NotAnAuthTransition
    /\ NoReturn
    /\ probe[p] = "select"
    /\ NoMicrotask
    /\ IF answer = "42501"
       THEN /\ probe' = [probe EXCEPT ![p] = "rlsSession"]
            /\ UNCHANGED <<connectionPromise, awaits>>
       ELSE Resolve(p, answer = "ok")
    /\ UNCHANGED <<isInitialized, currentUser, userProfile, listeners, autoInit,
                   task, kind, input, subject>>

\* _performConnectionTest() gets the answer of getSession() on the RLS path
RlsSessionResponse(p, answer) ==
    /\ UNCHANGED <<varsL, varsD>>
    /\ NotAnAuthTransition
    /\ NoReturn
    /\ probe[p] = "rlsSession"
    /\ NoMicrotask
    /\ Resolve(p, answer = "ok")
    /\ UNCHANGED <<isInitialized, currentUser, userProfile, listeners, autoInit,
                   task, kind, input, subject>>

\* executeWithErrorHandling() after its await of testConnection()
AfterConnection(t) ==
    /\ UNCHANGED <<varsL, varsD>>
    /\ NotAnAuthTransition
    /\ task[t] = "testConnection"
    /\ awaits[t].state = "resolved"
    /\ awaits' = [awaits EXCEPT ![t] = NoPromise]
    /\ IF ~awaits[t].value
       THEN Finish(t, "Database connection not available")
       ELSE IF currentUser # "null"
       THEN ensureUserProfile(t, currentUser)
       ELSE operationFunction(t)
    /\ UNCHANGED <<isInitialized, connectionPromise, currentUser, userProfile,
                   listeners, autoInit, probe>>

\* ensureUserProfile() gets the answer of its query for the profile
ProfileFetchResponse(t, answer) ==
    /\ UNCHANGED <<varsL, varsD>>
    /\ NotAnAuthTransition
    /\ task[t] = "profileFetch"
    /\ NoMicrotask
    /\ IF answer = "found"
       THEN /\ userProfile' = subject[t]
            /\ Goto(t, "profileDone", subject[t])
       ELSE IF answer = "throw" \/ currentUser = "null"
       THEN /\ Goto(t, "profileDone", "null")
            /\ UNCHANGED userProfile
       ELSE /\ Goto(t, "profileUpsert", currentUser)
            /\ UNCHANGED userProfile
    /\ UNCHANGED <<isInitialized, connectionPromise, currentUser, listeners,
                   autoInit, probe, awaits>>

\* ensureUserProfile() gets the answer of its upsert of a new profile
ProfileUpsertResponse(t, answer) ==
    /\ UNCHANGED <<varsL, varsD>>
    /\ NotAnAuthTransition
    /\ task[t] = "profileUpsert"
    /\ NoMicrotask
    /\ userProfile' = userProfileAfterUpsert(answer, subject[t])
    /\ Goto(t, "profileDone", IF answer = "ok" THEN subject[t] ELSE "null")
    /\ UNCHANGED <<isInitialized, connectionPromise, currentUser, listeners,
                   autoInit, probe, awaits>>

\* The caller of ensureUserProfile() after its await
AfterEnsureUserProfile(t) ==
    /\ UNCHANGED <<varsL, varsD>>
    /\ NotAnAuthTransition
    /\ task[t] = "profileDone"
    /\ IF kind[t] = "signIn"
       THEN /\ connectionPromise' = NoPromise
            /\ Finish(t, "success")
       ELSE /\ IF kind[t] = "diagnoseConnection"
               THEN Goto(t, "tables", "null")
               ELSE operationFunction(t)
            /\ UNCHANGED connectionPromise
    /\ UNCHANGED <<isInitialized, currentUser, userProfile, listeners, autoInit,
                   probe, awaits>>

\* The operation function of loadPrepLists() gets the answer of its query
QueryResponse(t, answer) ==
    /\ UNCHANGED <<varsL, varsD>>
    /\ NotAnAuthTransition
    /\ task[t] = "query"
    /\ NoMicrotask
    /\ Finish(t, reclassify(answer))
    /\ UNCHANGED <<isInitialized, connectionPromise, currentUser, userProfile,
                   listeners, autoInit, probe, awaits>>

\* signIn(email, password) with the credentials of `user`, up to its await
signIn(t, user) ==
    /\ UNCHANGED <<varsL, varsD>>
    /\ NotAnAuthTransition
    /\ Start(t, "signIn", "signIn", user)
    /\ UNCHANGED <<isInitialized, connectionPromise, currentUser, userProfile,
                   listeners, autoInit, probe, awaits>>

\* signIn() gets the answer of signInWithPassword()
SignInResponse(t, answer) ==
    /\ UNCHANGED <<varsL, varsD>>
    /\ task[t] = "signIn"
    /\ NoMicrotask
    /\ IF answer = "ok"
       THEN /\ currentUser' = subject[t]
            /\ ensureUserProfile(t, subject[t])
            /\ lastAuth' = [kind |-> "signIn", user |-> subject[t]]
       ELSE /\ Finish(t, "failure")
            /\ NotAnAuthTransition
            /\ UNCHANGED currentUser
    /\ UNCHANGED <<isInitialized, connectionPromise, userProfile, listeners,
                   autoInit, probe, awaits>>

\* signOut(), up to its await
signOut(t) ==
    /\ UNCHANGED <<varsL, varsD>>
    /\ NotAnAuthTransition
    /\ Start(t, "signOut", "signOut", "null")
    /\ UNCHANGED <<isInitialized, connectionPromise, currentUser, userProfile,
                   listeners, autoInit, probe, awaits>>

\* signOut() gets the answer of auth.signOut()
SignOutResponse(t, answer) ==
    /\ UNCHANGED <<varsL, varsD>>
    /\ task[t] = "signOut"
    /\ NoMicrotask
    /\ IF answer = "ok"
       THEN /\ currentUser' = "null"
            /\ userProfile' = "null"
            /\ connectionPromise' = NoPromise
            /\ Finish(t, "success")
            /\ lastAuth' = [kind |-> "signOut", user |-> "null"]
       ELSE /\ Finish(t, "failure")
            /\ NotAnAuthTransition
            /\ UNCHANGED <<currentUser, userProfile, connectionPromise>>
    /\ UNCHANGED <<isInitialized, listeners, autoInit, probe, awaits>>

\* diagnoseConnection(), from the call to its first await or to its return
diagnoseConnection(t) ==
    /\ UNCHANGED <<varsL, varsD>>
    /\ NotAnAuthTransition
    /\ IF configured
       THEN /\ Start(t, "diagnoseConnection", "session", "null")
            /\ UNCHANGED connectionPromise
       ELSE /\ CanStart(t)
            /\ connectionPromise' = NoPromise
            /\ taskResult' = [call |-> "diagnoseConnection", value |-> "not configured"]
            /\ UNCHANGED <<task, kind, input, subject>>
    /\ UNCHANGED <<isInitialized, currentUser, userProfile, listeners, autoInit,
                   probe, awaits>>

\* diagnoseConnection() gets the answer of getSession()
DiagnoseSessionResponse(t, answer) ==
    /\ UNCHANGED <<varsL, varsD>>
    /\ NotAnAuthTransition
    /\ task[t] = "session"
    /\ NoMicrotask
    /\ IF answer = "throw"
       THEN /\ connectionPromise' = NoPromise
            /\ Finish(t, "Connection diagnosis failed")
       ELSE IF answer \in Users
       THEN /\ ensureUserProfile(t, currentUser)
            /\ UNCHANGED connectionPromise
       ELSE /\ Goto(t, "tables", "null")
            /\ UNCHANGED connectionPromise
    /\ UNCHANGED <<isInitialized, currentUser, userProfile, listeners, autoInit,
                   probe, awaits>>

\* diagnoseConnection() gets the last answer of its table and policy queries
DiagnoseTablesResponse(t) ==
    /\ UNCHANGED <<varsL, varsD>>
    /\ NotAnAuthTransition
    /\ task[t] = "tables"
    /\ NoMicrotask
    /\ connectionPromise' = NoPromise
    /\ Finish(t, "diagnosis")
    /\ UNCHANGED <<isInitialized, currentUser, userProfile, listeners, autoInit,
                   probe, awaits>>

\* The auth client reports a change of the auth state to its listeners
AuthStateChange(session) ==
    /\ UNCHANGED <<varsL, varsD>>
    /\ NoReturn
    /\ listeners >= 1
    /\ onAuthStateChange(session)
    /\ lastAuth' = [kind |-> "listener", user |-> session]
    /\ UNCHANGED <<isInitialized, listeners, autoInit, probe, task, kind, input,
                   awaits, subject>>

\* savePrepList(), saveEvent(), saveRecipe() or saveMethod(), from the call
\* to the await of testConnection()
saveWithErrorHandling(t, call, entity) ==
    /\ UNCHANGED <<varsL, varsD>>
    /\ NotAnAuthTransition
    /\ StartWith(t, call, "testConnection", entity)
    /\ testConnectionMemo(t)
    /\ UNCHANGED <<isInitialized, currentUser, userProfile, listeners, autoInit>>

\* deletePrepList(id), from the call to the await of testConnection()
deleteWithErrorHandling(t, id) ==
    /\ UNCHANGED <<varsL, varsD>>
    /\ NotAnAuthTransition
    /\ StartWith(t, "deletePrepList", "testConnection", [NoInput EXCEPT !.id = id])
    /\ testConnectionMemo(t)
    /\ UNCHANGED <<isInitialized, currentUser, userProfile, listeners, autoInit>>

\* The operation function of a save gets the answer of its upsert
UpsertResponse(t, answer) ==
    /\ UNCHANGED <<varsL, varsD>>
    /\ NotAnAuthTransition
    /\ task[t] = "upsert"
    /\ NoMicrotask
    /\ Finish(t, reclassify(answer))
    /\ UNCHANGED <<isInitialized, connectionPromise, currentUser, userProfile,
                   listeners, autoInit, probe, awaits>>

\* The operation function of deletePrepList() gets the answer of its delete
DeleteResponse(t, answer) ==
    /\ UNCHANGED <<varsL, varsD>>
    /\ NotAnAuthTransition
    /\ task[t] = "delete"
    /\ NoMicrotask
    /\ Finish(t, reclassify(answer))
    /\ UNCHANGED <<isInitialized, connectionPromise, currentUser, userProfile,
                   listeners, autoInit, probe, awaits>>

\* The steps of the mutating calls in the records S
MutationStep(S) ==
    \/ \E t \in S, call \in SaveCalls : \E entity \in EntitiesOf(call) :
          saveWithErrorHandling(t, call, entity)
    \/ \E t \in S, id \in Ids : deleteWithErrorHandling(t, id)
    \/ \E t \in S, answer \in {"ok", "23505", "42501", "error"} : UpsertResponse(t, answer)
    \/ \E t \in S, answer \in {"ok", "42501", "error"} : DeleteResponse(t, answer)

\* The steps of the calls in the records S
TaskStep(S) ==
    \/ \E t \in S : loadPrepLists(t)
    \/ \E t \in S : AfterConnection(t)
    \/ \E t \in S, answer \in {"found", "none", "throw"} : ProfileFetchResponse(t, answer)
    \/ \E t \in S, answer \in {"ok", "error", "throw"} : ProfileUpsertResponse(t, answer)
    \/ \E t \in S : AfterEnsureUserProfile(t)
    \/ \E t \in S, answer \in {"ok", "42501", "error"} : QueryResponse(t, answer)
    \/ \E t \in S, user \in Users : signIn(t, user)
    \/ \E t \in S, answer \in {"ok", "error"} : SignInResponse(t, answer)
    \/ \E t \in S : signOut(t)
    \/ \E t \in S, answer \in {"ok", "error"} : SignOutResponse(t, answer)
    \/ \E t \in S : diagnoseConnection(t)
    \/ \E t \in S, answer \in Sessions \cup {"authError", "throw"} : DiagnoseSessionResponse(t, answer)
    \/ \E t \in S : DiagnoseTablesResponse(t)

\* The steps of initialize(), of the connection tests and of the auth client
ServiceStep ==
    \/ \E answer \in Sessions \cup {"throw"} : AutoInitializeResponse(answer)
    \/ \E p \in Probes, answer \in Sessions \cup {"throw"} : InitializeResponse(p, answer)
    \/ \E p \in Probes : AfterInitialize(p)
    \/ \E p \in Probes, answer \in {"ok", "42501", "error"} : SelectResponse(p, answer)
    \/ \E p \in Probes, answer \in {"ok", "throw"} : RlsSessionResponse(p, answer)
    \/ \E session \in Sessions : AuthStateChange(session)

\* A loader's .filter(item => item && item.id && item.name)
isValidItem_idOnly(item) == ~item.isNull /\ item.id # ""
isValidItem(item) == ~item.isNull /\ item.id # "" /\ item.name # <<>>

\* Array.isArray(value)
isArray(value) == value.tag = "array"

\* Array.isArray(x) ? x : []
arrayOrEmpty_ifTruthy(value) ==
    IF value.tag \in {"array", "object"} THEN value ELSE Arr(<<>>)
arrayOrEmpty(value) == IF isArray(value) THEN value ELSE Arr(<<>>)

\* A loader's .map(item => ({...})): the domain object, with its array field
\* (items: Array.isArray(item.items) ? item.items : [])
mapItem(call, item) ==
    [id |-> item.id, name |-> item.name, items |-> arrayOrEmpty(item.items)]

RECURSIVE filterMap(_, _)
filterMap(call, rows) ==
    IF rows = <<>> THEN <<>>
    ELSE IF isValidItem(Head(rows))
    THEN <<mapItem(call, Head(rows))>> \o filterMap(call, Tail(rows))
    ELSE filterMap(call, Tail(rows))

\* (data || []).filter(...).map(...)
validItems(call, data) ==
    filterMap(call, IF data.isNull THEN <<>> ELSE data.rows)

\* The operation function of a loader after its select was answered without
\* error: its return value
loaderReturns(call) ==
    /\ ~loaded.set
    /\ loaded' = [set |-> TRUE, call |-> call, rows |-> validItems(call, remoteRows)]
    /\ UNCHANGED <<varsL, varsP, hasUrl, hasKey, remoteRows, diag, diagnosis, wire>>

\* The caller has taken the return value
loaderReturned ==
    /\ loaded.set
    /\ loaded' = NotLoaded
    /\ UNCHANGED <<varsL, varsP, hasUrl, hasKey, remoteRows, diag, diagnosis, wire>>

\* SpecF: the loaders on every answer the remote can give to their select
InitF ==
    /\ hasAccess = TRUE
    /\ configured = TRUE
    /\ hasUrl = configured
    /\ hasKey = configured
    /\ InitLockingFields
    /\ InitProfileFields
    /\ remoteRows \in RemoteData
    /\ loaded = NotLoaded
    /\ diag = NoDiagnose
    /\ diagnosis = NoDiagnosis
    /\ wire = NoWire

NextF ==
    \/ \E call \in LoadCalls : loaderReturns(call)
    \/ loaderReturned

SpecF == InitF /\ [][NextF]_vars

\* ------------------------------------------------ diagnoseConnection()
\* An entry of diagnosis.errors: what it is about
ErrorEntry(about, table) == [about |-> about, table |-> table]

\* if (!hasUrl) errors.push(...); if (!hasKey) errors.push(...)
configurationErrors_firstOnly(url, anonKey) ==
    IF ~url THEN <<ErrorEntry("VITE_SUPABASE_URL", 0)>>
    ELSE IF ~anonKey THEN <<ErrorEntry("VITE_SUPABASE_ANON_KEY", 0)>>
    ELSE <<>>
configurationErrors(url, anonKey) ==
    (IF ~url THEN <<ErrorEntry("VITE_SUPABASE_URL", 0)>> ELSE <<>>)
    \o (IF ~anonKey THEN <<ErrorEntry("VITE_SUPABASE_ANON_KEY", 0)>> ELSE <<>>)

\* An exception thrown at `where` is caught by a try block of the function:
\* the outer one for the session fetch, the one in its loop for a probe
caught_inLoopsOnly(where) == where # "session"
caught(where) == where \in {"session", "table", "rls"}

\* The call sends one more request and awaits its answer at `at`
Await(at, table, failures) ==
    diag' = [diag EXCEPT !.pc = at, !.table = table,
                         !.failed = @ \cup failures, !.requests = @ + 1]

\* The call leaves its try block: this.connectionPromise = null; return
ReturnDiagnosis(failures) ==
    /\ diag' = [diag EXCEPT !.pc = "returned", !.table = 0,
                            !.failed = @ \cup failures]
    /\ connectionPromise' = NoPromise

\* An exception no try block catches rejects the call
Reject(failures) ==
    /\ diag' = [diag EXCEPT !.pc = "rejected", !.failed = @ \cup failures]
    /\ UNCHANGED <<connectionPromise, diagnosis>>

\* diagnoseConnection(), from the call to its first await or to its return
reportConfiguration ==
    /\ diag.pc = "idle"
    /\ LET d == [NewDiagnosis EXCEPT !.errors = configurationErrors(hasUrl, hasKey),
                                     !.configured = hasUrl /\ hasKey] IN
       /\ diagnosis' = d
       /\ IF d.configured
          THEN Await("session", 0, {}) /\ UNCHANGED connectionPromise
          ELSE ReturnDiagnosis({})
    /\ UNCHANGED <<varsL, isInitialized, currentUser, userProfile, listeners,
                   autoInit, probe, task, kind, awaits, subject, input,
                   taskResult, lastAuth, hasUrl, hasKey, remoteRows, loaded,
                   wire>>

\* diagnoseConnection() gets the answer of getSession(): the user of the
\* session, "none", "authError" or "throw"
reportSession(answer) ==
    /\ diag.pc = "session"
    /\ IF answer = "throw"
       THEN IF caught("session")
            THEN /\ diagnosis' = [diagnosis EXCEPT !.errors =
                                     Append(@, ErrorEntry("diagnosis", 0))]
                 /\ ReturnDiagnosis({ErrorEntry("session", 0)})
            ELSE Reject({ErrorEntry("session", 0)})
       ELSE IF answer = "authError"
       THEN /\ diagnosis' = [diagnosis EXCEPT !.errors =
                                Append(@, ErrorEntry("session", 0))]
            /\ Await("table", 1, {ErrorEntry("session", 0)})
            /\ UNCHANGED connectionPromise
       ELSE IF answer = "none"
       THEN /\ Await("table", 1, {})
            /\ UNCHANGED <<connectionPromise, diagnosis>>
       ELSE \* diagnosis.userProfile = await this.ensureUserProfile()
            /\ diagnosis' = [diagnosis EXCEPT
                                !.authenticated = TRUE, !.user = answer,
                                !.userProfile = IF currentUser = "null"
                                                THEN "null" ELSE userProfile]
            /\ IF currentUser = "null" \/ userProfile # "null"
               THEN Await("table", 1, {})
               ELSE Await("profileFetch", 0, {})
            /\ UNCHANGED connectionPromise
    /\ UNCHANGED <<varsL, isInitialized, currentUser, userProfile, listeners,
                   autoInit, probe, task, kind, awaits, subject, input,
                   taskResult, lastAuth, hasUrl, hasKey, remoteRows, loaded,
                   wire>>

\* ensureUserProfile(), called by diagnoseConnection(), gets the answer of
\* its query for the profile
reportProfileFetch(answer) ==
    /\ diag.pc = "profileFetch"
    /\ IF answer = "found"
       THEN /\ userProfile' = currentUser
            /\ diagnosis' = [diagnosis EXCEPT !.userProfile = currentUser]
            /\ Await("table", 1, {})
       ELSE IF answer = "throw"
       THEN /\ Await("table", 1, {})
            /\ UNCHANGED <<userProfile, diagnosis>>
       ELSE /\ Await("profileUpsert", 0, {})
            /\ UNCHANGED <<userProfile, diagnosis>>
    /\ UNCHANGED <<varsL, isInitialized, connectionPromise, currentUser,
                   listeners, autoInit, probe, task, kind, awaits, subject,
                   input, taskResult, lastAuth, hasUrl, hasKey, remoteRows,
                   loaded, wire>>

\* ensureUserProfile(), called by diagnoseConnection(), gets the answer of
\* its upsert of a new profile
reportProfileUpsert(answer) ==
    /\ diag.pc = "profileUpsert"
    /\ userProfile' = userProfileAfterUpsert(answer, currentUser)
    /\ diagnosis' = [diagnosis EXCEPT !.userProfile =
                        IF answer = "ok" THEN currentUser ELSE "null"]
    /\ Await("table", 1, {})
    /\ UNCHANGED <<varsL, isInitialized, connectionPromise, currentUser,
                   listeners, autoInit, probe, task, kind, awaits, subject,
                   input, taskResult, lastAuth, hasUrl, hasKey, remoteRows,
                   loaded, wire>>

\* The loop over tablesToTest gets the answer of the probe of diag.table:
\* "ok", "42501" (or a message that mentions RLS), "error" or "throw"
reportTable(answer) ==
    /\ diag.pc = "table"
    /\ LET table == diag.table
           failures == IF answer = "ok" THEN {} ELSE {ErrorEntry("table", table)}
       IN
       IF answer = "throw" /\ ~caught("table")
       THEN Reject(failures)
       ELSE /\ diagnosis' =
                 CASE answer = "ok" ->
                        [diagnosis EXCEPT !.tables = Append(@, [table |-> table, rls |-> FALSE]),
                                          !.accessible = TRUE]
                   [] answer = "42501" ->
                        [diagnosis EXCEPT !.errors = Append(@, ErrorEntry("table", table)),
                                          !.tables = Append(@, [table |-> table, rls |-> TRUE]),
                                          !.accessible = TRUE]
                   [] OTHER ->
                        [diagnosis EXCEPT !.errors = Append(@, ErrorEntry("table", table))]
            /\ IF table + 1 \in tablesToTest
               THEN Await("table", table + 1, failures)
               ELSE Await("pg_class", 1, failures)
            /\ UNCHANGED connectionPromise
    /\ UNCHANGED <<varsL, isInitialized, currentUser, userProfile, listeners,
                   autoInit, probe, task, kind, awaits, subject, input,
                   taskResult, lastAuth, hasUrl, hasKey, remoteRows, loaded,
                   wire>>

\* The loop over rlsQueries has the status of diag.table and goes on to the
\* next table, or the function returns
NextRlsQuery(status, failures) ==
    /\ diagnosis' = [diagnosis EXCEPT !.rlsStatus = Append(@, status)]
    /\ IF diag.table + 1 \in tablesToTest
       THEN Await("pg_class", diag.table + 1, failures) /\ UNCHANGED connectionPromise
       ELSE ReturnDiagnosis(failures)

\* The loop over rlsQueries gets the answer of its query of pg_class:
\* "enabled" (a row with relrowsecurity), "error" (no data) or "throw"
reportRlsEnabled(answer) ==
    /\ diag.pc = "pg_class"
    /\ LET failures == IF answer = "enabled" THEN {}
                       ELSE {ErrorEntry("rls", diag.table)} IN
       IF answer = "throw"
       THEN IF caught("rls")
            THEN NextRlsQuery([enabled |-> FALSE,
                               policies |-> "Unable to check policies"], failures)
            ELSE Reject(failures)
       ELSE /\ diag' = [diag EXCEPT !.pc = "pg_policies",
                                    !.rlsEnabled = (answer = "enabled"),
                                    !.failed = @ \cup failures,
                                    !.requests = @ + 1]
            /\ UNCHANGED <<connectionPromise, diagnosis>>
    /\ UNCHANGED <<varsL, isInitialized, currentUser, userProfile, listeners,
                   autoInit, probe, task, kind, awaits, subject, input,
                   taskResult, lastAuth, hasUrl, hasKey, remoteRows, loaded,
                   wire>>

\* The loop over rlsQueries gets the answer of its query of pg_policies:
\* "ok" (rows), "error" (no data) or "throw"
reportPolicies(answer) ==
    /\ diag.pc = "pg_policies"
    /\ LET failures == IF answer = "ok" THEN {}
                       ELSE {ErrorEntry("policies", diag.table)} IN
       IF answer = "throw"
       THEN IF caught("rls")
            THEN NextRlsQuery([enabled |-> FALSE,
                               policies |-> "Unable to check policies"], failures)
            ELSE Reject(failures)
       ELSE NextRlsQuery([enabled |-> diag.rlsEnabled,
                          policies |-> IF answer = "ok" THEN "listed" ELSE "none"],
                         failures)
    /\ UNCHANGED <<varsL, isInitialized, currentUser, userProfile, listeners,
                   autoInit, probe, task, kind, awaits, subject, input,
                   taskResult, lastAuth, hasUrl, hasKey, remoteRows, loaded,
                   wire>>

\* The caller has taken the report
reportTaken ==
    /\ diag.pc = "returned"
    /\ diag' = NoDiagnose
    /\ diagnosis' = NoDiagnosis
    /\ UNCHANGED <<varsL, varsP, hasUrl, hasKey, remoteRows, loaded, wire>>

\* SpecD: calls of diagnoseConnection() one after another, with each secret
\* set or missing, made before or after a sign-in
InitD ==
    /\ hasAccess = TRUE
    /\ hasUrl \in BOOLEAN
    /\ hasKey \in BOOLEAN
    /\ configured = (hasUrl /\ hasKey)
    /\ InitLockingFields
    /\ isInitialized = FALSE
    /\ connectionPromise = NoPromise
    /\ currentUser \in {"null", "u1"}
    /\ userProfile \in {"null", currentUser}
    /\ listeners = 0
    /\ autoInit = "getSession"
    /\ probe = [p \in Probes |-> "free"]
    /\ task = [t \in Tasks |-> "idle"]
    /\ kind = [t \in Tasks |-> ""]
    /\ awaits = [t \in Tasks |-> NoPromise]
    /\ subject = [t \in Tasks |-> "null"]
    /\ input = [t \in Tasks |-> NoInput]
    /\ taskResult = NoResult
    /\ lastAuth = NoAuth
    /\ InitReportFields

NextD ==
    \/ reportConfiguration
    \/ \E answer \in {"u1", "none", "authError", "throw"} : reportSession(answer)
    \/ \E answer \in {"found", "none", "throw"} : reportProfileFetch(answer)
    \/ \E answer \in {"ok", "error", "throw"} : reportProfileUpsert(answer)
    \/ \E answer \in {"ok", "42501", "error", "throw"} : reportTable(answer)
    \/ \E answer \in {"enabled", "error", "throw"} : reportRlsEnabled(answer)
    \/ \E answer \in {"ok", "error", "throw"} : reportPolicies(answer)
    \/ reportTaken

SpecD == InitD /\ [][NextD]_vars

\* ----------------------------------------------------- saves at the wire
\* value ? true : false
truthy(value) ==
    CASE value.tag \in {"undefined", "null", "NaN"} -> FALSE
      [] value.tag = "number" -> value.val # 0
      [] value.tag = "string" -> value.chars # <<>>
      [] OTHER -> TRUE

\* value || fallback
orElse(value, fallback) == IF truthy(value) THEN value ELSE fallback

DigitValue(char) ==
    CASE char = "0" -> 0 [] char = "3" -> 3 [] char = "5" -> 5 [] OTHER -> -1

allDigits(chars) == \A i \in 1..Len(chars) : DigitValue(chars[i]) >= 0

RECURSIVE digitsValue(_)
digitsValue(chars) ==
    IF chars = <<>> THEN 0
    ELSE 10 * digitsValue(SubSeq(chars, 1, Len(chars) - 1))
         + DigitValue(chars[Len(chars)])

\* Number(value), for the values a totalServings can hold
Number(value) ==
    CASE value.tag = "number" -> value
      [] value.tag = "null" -> Num(0)
      [] value.tag = "string" ->
           LET text == trim(value.chars) IN
           IF text = <<>> THEN Num(0)
           ELSE IF allDigits(text) THEN Num(digitsValue(text))
           ELSE IF Head(text) = "-" /\ Tail(text) # <<>> /\ allDigits(Tail(text))
           THEN Num(0 - digitsValue(Tail(text)))
           ELSE NaN
      [] OTHER -> NaN

\* Number(event.totalServings) || 0
totalServingsSent(value) == orElse(Number(value), Num(0))

\* The arguments of saveEvent and of savePrepList
ArrayInputs == {Undefined, Null, Obj, Arr(<<>>), Arr(<<"i1">>)}
Events ==
    [id : {"e1"}, name : {<<"A">>, <<" ", "A", " ">>}, date : {"2024-01-01"},
     invoiceNumber : {Undefined, Str(<<"I">>)},
     prepItems : ArrayInputs,
     status : {Undefined, Str(<<"active">>)},
     totalServings : {Undefined, NaN, Num(0), Num(50), Num(0 - 3),
                      Str(<<"5", "0">>), Str(<<"5", "x">>)},
     company_id : {Undefined}]
PrepLists ==
    [id : {"p1"}, name : {<<" ">>, <<"A">>, <<" ", "A", " ">>},
     items : ArrayInputs, company_id : {Undefined, Str(<<"c1">>)}]
WireVariants == {"profile-caching", "locking"}

\* saveEvent: const sanitizedEvent = {...}
sanitizedEvent(event, user) ==
    [id |-> event.id, name |-> trim(event.name), date |-> event.date,
     invoice_number |-> orElse(event.invoiceNumber, Null),
     prep_items |-> arrayOrEmpty(event.prepItems),
     status |-> orElse(event.status, Str(<<"planning">>)),
     total_servings |-> totalServingsSent(event.totalServings),
     company_id |-> orElse(event.company_id, Null),
     user_id |-> user]

\* savePrepList: const sanitizedList = {...}
sanitizedList(prepList, user) ==
    [id |-> prepList.id, name |-> trim(prepList.name),
     items |-> arrayOrEmpty(prepList.items),
     company_id |-> orElse(prepList.company_id, Null),
     user_id |-> user]

\* savePrepList of the locking variant: the object given to upsert()
upsertedList(prepList) ==
    [id |-> prepList.id, name |-> prepList.name, items |-> prepList.items,
     company_id |-> prepList.company_id]

\* The row a save sends
rowSent(variant, call, entity, user) ==
    IF call = "saveEvent" THEN sanitizedEvent(entity, user)
    ELSE IF variant = "locking" THEN upsertedList(entity)
    ELSE sanitizedList(entity, user)

\* The check that precedes the upsert: a save of the profile-caching variant
\* trims the name, savePrepList of the locking variant does not
rejectedAtWire(variant, entity, user) ==
    IF variant = "locking"
    THEN entity.id = "" \/ entity.name = <<>>
    ELSE entity.id = "" \/ trim(entity.name) = <<>> \/ identityMissing(user)

\* The entity a save returns for the row `data` of the answer
entityReturned(variant, call, data) ==
    IF call = "saveEvent"
    THEN [id |-> data.id, name |-> data.name, date |-> data.date,
          invoiceNumber |-> data.invoice_number,
          prepItems |-> orElse(data.prep_items, Arr(<<>>)),
          status |-> data.status,
          totalServings |-> orElse(data.total_servings, Num(0)),
          company_id |-> data.company_id,
          created_at |-> data.created_at, updated_at |-> data.updated_at]
    ELSE IF variant = "locking"
    THEN [id |-> data.id, name |-> data.name,
          items |-> orElse(data.items, Arr(<<>>))]
    ELSE [id |-> data.id, name |-> data.name,
          items |-> orElse(data.items, Arr(<<>>)),
          company_id |-> data.company_id,
          created_at |-> data.created_at, updated_at |-> data.updated_at]

\* The remote stores the row it is sent: the stored row has the columns sent
\* and the timestamps the server assigns (.select().single() answers with it)
storedRow(row) ==
    [c \in DOMAIN row \cup {"isNull", "created_at", "updated_at"} |->
        IF c = "isNull" THEN FALSE
        ELSE IF c \in {"created_at", "updated_at"} THEN "t1"
        ELSE row[c]]

\* The operation function of a save, from the validation to the await of
\* its upsert, or to its throw
saveSends(variant, call, entity) ==
    /\ wire.pc = "idle"
    /\ wire' = IF rejectedAtWire(variant, entity, currentUser)
               THEN [pc |-> "rejected", variant |-> variant, call |-> call,
                     entity |-> entity]
               ELSE [pc |-> "sent", variant |-> variant, call |-> call,
                     entity |-> entity,
                     row |-> rowSent(variant, call, entity, currentUser)]
    /\ UNCHANGED <<varsL, varsP, hasUrl, hasKey, remoteRows, loaded, diag, diagnosis>>

\* The remote answers the upsert without error
upsertAnswered ==
    /\ wire.pc = "sent"
    /\ wire' = [pc |-> "answered", variant |-> wire.variant, call |-> wire.call,
                entity |-> wire.entity, row |-> wire.row,
                data |-> storedRow(wire.row)]
    /\ UNCHANGED <<varsL, varsP, hasUrl, hasKey, remoteRows, loaded, diag, diagnosis>>

\* The operation function of the save maps the answer and returns
saveReturns ==
    /\ wire.pc = "answered"
    /\ wire' = [pc |-> "returned", variant |-> wire.variant, call |-> wire.call,
                entity |-> wire.entity, row |-> wire.row, data |-> wire.data,
                result |-> entityReturned(wire.variant, wire.call, wire.data)]
    /\ UNCHANGED <<varsL, varsP, hasUrl, hasKey, remoteRows, loaded, diag, diagnosis>>

\* loadPrepLists of the profile-caching variant issued next, with no write
\* in between: the select is answered with the stored row, the newest,
\* before the rows the table held
loadAfterSave ==
    /\ wire.pc = "returned"
    /\ wire.variant = "profile-caching"
    /\ wire.call = "savePrepList"
    /\ ~loaded.set
    /\ loaded' = [set |-> TRUE, call |-> "loadPrepLists",
                  rows |-> validItems("loadPrepLists",
                              [isNull |-> FALSE,
                               rows |-> <<wire.data>> \o remoteRows.rows])]
    /\ UNCHANGED <<varsL, varsP, hasUrl, hasKey, remoteRows, diag, diagnosis, wire>>

\* The caller has taken what the save, and the load, returned or threw
wireTaken ==
    /\ wire.pc \in {"returned", "rejected"}
    /\ wire' = NoWire
    /\ loaded' = NotLoaded
    /\ UNCHANGED <<varsL, varsP, hasUrl, hasKey, remoteRows, diag, diagnosis>>

\* SpecW: saves and the load that follows, for a signed-in user, on a table
\* that holds fewer than MaxRows other rows
InitW ==
    /\ hasAccess = TRUE
    /\ configured = TRUE
    /\ hasUrl = configured
    /\ hasKey = configured
    /\ InitLockingFields
    /\ isInitialized = TRUE
    /\ connectionPromise = NoPromise
    /\ currentUser = "u1"
    /\ userProfile = "u1"
    /\ listeners = 1
    /\ autoInit = "returned"
    /\ probe = [p \in Probes |-> "free"]
    /\ task = [t \in Tasks |-> "idle"]
    /\ kind = [t \in Tasks |-> ""]
    /\ awaits = [t \in Tasks |-> NoPromise]
    /\ subject = [t \in Tasks |-> "null"]
    /\ input = [t \in Tasks |-> NoInput]
    /\ taskResult = NoResult
    /\ lastAuth = NoAuth
    /\ remoteRows \in [isNull : {FALSE}, rows : SeqsUpTo(Items, MaxRows - 1)]
    /\ loaded = NotLoaded
    /\ diag = NoDiagnose
    /\ diagnosis = NoDiagnosis
    /\ wire = NoWire

NextW ==
    \/ \E event \in Events : saveSends("profile-caching", "saveEvent", event)
    \/ \E variant \in WireVariants, prepList \in PrepLists :
          saveSends(variant, "savePrepList", prepList)
    \/ upsertAnswered
    \/ saveReturns
    \/ loadAfterSave
    \/ wireTaken

SpecW == InitW /\ [][NextW]_vars

\* ------------------------------------------------ deduplicatePrepLists()
\* The lists loadPrepLists of the locking variant hands to
\* deduplicatePrepLists: id and name are truthy, items is item.items || []
ValidLists ==
    [id : {"p1", "p2"}, name : {<<"A">>, <<"B">>},
     company_id : {Undefined, Str(<<"c", "1">>)},
     items : {Arr(<<>>), Arr(<<"i1">>)}]

\* `${list.name}_${list.company_id || 'no-company'}`
listKey(list) ==
    list.name \o <<"_">>
    \o orElse(list.company_id,
              Str(<<"n", "o", "-", "c", "o", "m", "p", "a", "n", "y">>)).chars

\* list.items?.length || 0
itemCount(list) == IF isArray(list.items) THEN Len(list.items.elems) ELSE 0

\* The test that makes a later list replace the one seen under its key
replaces_onTies(list, existing) == itemCount(list) >= itemCount(existing)
replaces(list, existing) == itemCount(list) > itemCount(existing)

\* seen.get(key): the position of the key in the Map, 0 when it has none
seenAt(seen, k) ==
    IF \E i \in 1..Len(seen) : seen[i].key = k
    THEN CHOOSE i \in 1..Len(seen) : seen[i].key = k
    ELSE 0

\* The for loop over prepLists: `seen` is the Map, in insertion order; a
\* set() on a key it holds replaces the value where the key stands
RECURSIVE seenAfter(_, _)
seenAfter(seen, prepLists) ==
    IF prepLists = <<>> THEN seen
    ELSE LET list == Head(prepLists)
             i == seenAt(seen, listKey(list))
         IN IF i = 0
            THEN seenAfter(Append(seen, [key |-> listKey(list), value |-> list]),
                           Tail(prepLists))
            ELSE IF replaces(list, seen[i].value)
            THEN seenAfter([seen EXCEPT ![i].value = list], Tail(prepLists))
            ELSE seenAfter(seen, Tail(prepLists))

\* deduplicatePrepLists(prepLists): Array.from(seen.values())
deduplicatePrepLists(prepLists) ==
    LET seen == seenAfter(<<>>, prepLists) IN
    [i \in 1..Len(seen) |-> seen[i].value]

\* deduplicatePrepLists is applied to the valid lists of an answer
deduplicateReturns ==
    /\ ~loaded.set
    /\ loaded' = [set |-> TRUE, call |-> "deduplicatePrepLists",
                  rows |-> deduplicatePrepLists(remoteRows.rows)]
    /\ UNCHANGED <<varsL, varsP, hasUrl, hasKey, remoteRows, diag, diagnosis, wire>>

\* SpecU: deduplicatePrepLists on every sequence of up to MaxLists lists
InitU ==
    /\ hasAccess = TRUE
    /\ configured = TRUE
    /\ hasUrl = configured
    /\ hasKey = configured
    /\ InitLockingFields
    /\ InitProfileFields
    /\ remoteRows \in [isNull : {FALSE}, rows : SeqsUpTo(ValidLists, MaxLists)]
    /\ loaded = NotLoaded
    /\ diag = NoDiagnose
    /\ diagnosis = NoDiagnosis
    /\ wire = NoWire

NextU ==
    \/ deduplicateReturns
    \/ loaderReturned

SpecU == InitU /\ [][NextU]_vars

\* SpecP: overlapping calls
NextP ==
    \/ TaskStep(Tasks)
    \/ ServiceStep

SpecP == InitP /\ [][NextP]_vars

\* SpecA: calls made one after another, with the steps of the service and of
\* the auth client in between
NextA ==
    \/ TaskStep(SeqCalls)
    \/ ServiceStep

SpecA == InitP /\ [][NextA]_vars

\* SpecM: mutating calls made one after another, with the steps of the
\* service and of the auth client in between
NextM ==
    \/ MutationStep(SeqCalls)
    \/ \E t \in SeqCalls : AfterConnection(t)
    \/ \E t \in SeqCalls, answer \in {"found", "none", "throw"} : ProfileFetchResponse(t, answer)
    \/ \E t \in SeqCalls, answer \in {"ok", "error", "throw"} : ProfileUpsertResponse(t, answer)
    \/ \E t \in SeqCalls : AfterEnsureUserProfile(t)
    \/ ServiceStep

SpecM == InitP /\ [][NextM]_vars

\* ------------------------------------------------ locking variant: claims
Pending(c) == pc[c] \in {"tcProbe", "tcDone", "mutating", "fetchExisting", "settled"}

\* The callers that were handed the pending promise of call c
Joiners(c) == {j \in Calls : waitFor[j] = c}

\* C1: while a call of executeWithLock with some key is pending, the calls
\* with that key have invoked one operation function between them: a caller
\* arriving in that time invokes nothing and sends nothing, waits on the call
\* that holds the key, and ends with the settlement that call's operation
\* produced.  For deletePrepList: the callers of one pending delete cause one
\* remote delete request between them (none when the connection test of the
\* invoked operation fails), and no two delete requests for one id are in
\* flight together.
C1_SingleInvocation ==
    /\ \A c \in Calls :
         (Locked(c) /\ pc[c] \in {"tcProbe", "tcDone", "mutating",
                                  "fetchExisting", "settled", "joined"})
         => Cardinality({d \in Calls : /\ Locked(d) /\ Pending(d)
                                       /\ key[d] = key[c] /\ invoked[d]}) = 1
    /\ \A j \in Calls :
         waitFor[j] # 0
         => /\ ~invoked[j]
            /\ ~sent[j].set
            /\ pc[j] = "joined" => /\ Pending(waitFor[j])
                                   /\ key[waitFor[j]] = key[j]
            /\ pc[j] = "done" => /\ result[j].by = waitFor[j]
                                 /\ result[j].kind \in {"value", "error"}
    /\ \A c \in Calls :
         (op[c] = "deletePrepList" /\ invoked[c] /\ pc[c] = "done")
         => /\ result[c].by = c
            /\ sent[c].set <=> result[c].val # "connection"
            /\ Cardinality({d \in Joiners(c) \cup {c} : sent[d].set}) <= 1
    /\ \A c, d \in Calls :
         (/\ c # d /\ op[c] = "deletePrepList" /\ op[d] = "deletePrepList"
          /\ arg[c] = arg[d] /\ pc[c] = "mutating")
         => pc[d] # "mutating"

\* C1 witness: two deletePrepList calls for one id have both ended with the
\* value of the one delete request the first of them sent
C1_Witness ==
    \E c, j \in Calls :
        /\ c # j
        /\ op[c] = "deletePrepList" /\ op[j] = "deletePrepList"
        /\ arg[c] = arg[j]
        /\ pc[c] = "done" /\ pc[j] = "done"
        /\ waitFor[j] = c
        /\ invoked[c] /\ sent[c].set /\ ~sent[j].set
        /\ result[c].kind = "value" /\ result[j] = result[c]

\* C2: a savePrepList call made while recentOperations holds, under the call's
\* key, an entry whose data serializes like the call's payload: when at most
\* DUPLICATE_WINDOW ms have passed since the entry's timestamp, the call
\* returns its input at once, invokes no operation, sends nothing and leaves
\* the entry; when more have passed, the lookup removes the entry and the call
\* goes on to executeWithLock.
C2_DuplicateWindow ==
    [][\A c \in Calls, o \in PrepObjs :
         (pc[c] = "idle" /\ pc'[c] # "idle" /\ op'[c] = "savePrepList" /\ arg'[c] = o)
         => LET k == generateOperationKey("savePrepList", heap[o]) IN
            (/\ MapHas(recentOperations, k)
             /\ JSONstringify(heap[recentOperations[k].data]) = JSONstringify(heap[o]))
            => IF now - recentOperations[k].timestamp <= DUPLICATE_WINDOW
               THEN /\ pc'[c] = "done"
                    /\ result'[c] = [kind |-> "input", val |-> o, by |-> c]
                    /\ ~invoked'[c]
                    /\ sent' = sent
                    /\ recentOperations' = recentOperations
               ELSE /\ ~MapHas(recentOperations', k)
                    /\ pc'[c] \in {"tcProbe", "tcDone", "joined"}
                    /\ invoked'[c] \/ waitFor'[c] # 0
      ]_vars

\* C2 witness: after a write at an earlier time, a second identical call made
\* inside the window has returned its input and has sent nothing
C2_Witness ==
    \E c \in Calls :
        /\ op[c] = "savePrepList" /\ pc[c] = "done"
        /\ result[c].kind = "input"
        /\ ~sent[c].set
        /\ MapHas(recentOperations, key[c])
        /\ now > recentOperations[key[c]].timestamp
        /\ now - recentOperations[key[c]].timestamp <= DUPLICATE_WINDOW

\* The operation key a call's remote mutation belongs to: the key the call
\* took in executeWithLock, or the key generateOperationKey derives for it
OperationKeyOf(c) ==
    CASE op[c] = "saveEvent" -> generateOperationKey("saveEvent", EventVal(arg[c]))
      [] op[c] = "saveRecipe" -> generateOperationKey("saveRecipe", RecipeVal(arg[c]))
      [] OTHER -> key[c]

\* C3: for every operation key, at most one remote mutation issued under that
\* key is in flight
C3_OneMutationInFlightPerKey ==
    \A c, d \in Calls :
        (c # d /\ pc[c] = "mutating" /\ pc[d] = "mutating")
        => OperationKeyOf(c) # OperationKeyOf(d)

\* C4: operationLocks holds no entry of a settled operation: every entry
\* belongs to a call whose operationPromise is pending, and a caller that
\* waits does so on the entry of its key, so a call made after an operation
\* has settled finds no entry and invokes its operation anew.
C4_LockReleasedOnSettle ==
    /\ \A k \in DOMAIN operationLocks :
         /\ Pending(operationLocks[k])
         /\ Locked(operationLocks[k])
         /\ key[operationLocks[k]] = k
    /\ \A j \in Calls :
         pc[j] = "joined"
         => /\ MapHas(operationLocks, key[j])
            /\ operationLocks[key[j]] = waitFor[j]

\* C4 witness: an operation has settled by failure, its entry is gone, and a
\* later call with the same key has invoked its own operation
C4_Witness ==
    \E c, d \in Calls :
        /\ c # d
        /\ Locked(c) /\ invoked[c] /\ pc[c] = "done"
        /\ result[c].kind = "error" /\ result[c].val = "error"
        /\ key[d] = key[c] /\ invoked[d] /\ Pending(d)
        /\ operationLocks[key[c]] = d


\* --------------------------------------- profile-caching variant: claims
\* C5: at every moment at most one connection test (_performConnectionTest)
\* is in flight, whatever auth-state changes, signIn, signOut and
\* diagnoseConnection calls come in between.
C5_OneProbeInFlight ==
    Cardinality({p \in Probes : probe[p] \in InFlight}) <= 1

\* C6: the result of a connection test is not kept once the test has
\* completed: an operation that calls testConnection() when no connection
\* test is in flight starts a new one.
C6_FreshProbeAfterCompletion ==
    [][\A t \in Tasks :
          (/\ task[t] = "idle"
           /\ task'[t] = "testConnection"
           /\ \A p \in Probes : probe[p] \notin InFlight)
          => \E p \in Probes : probe[p] = "free" /\ probe'[p] \in InFlight]_vars

\* C7: over all calls of initialize(), the one at import and the ones of the
\* connection tests, the auth-state-change listener is registered at most once.
C7_ListenerRegisteredOnce == listeners <= 1

\* C8: a failed session fetch does not poison the service: an operation
\* called while the service is not initialized has initialization attempted
\* again, that is, leaves a session fetch of initialize() in flight.
C8_InitializeRetried ==
    [][\A t \in Tasks :
          (/\ task[t] = "idle"
           /\ task'[t] = "testConnection"
           /\ ~isInitialized)
          => (autoInit' = "getSession" \/ \E p \in Probes : probe'[p] = "getSession")]_vars

\* C9: in the state right after the auth-state-change listener ran for an
\* event carrying a session, currentUser is the user of that session (null
\* when there is none), userProfile is null and connectionPromise is null.
C9_ListenerPostState ==
    lastAuth.kind = "listener" =>
        /\ currentUser = lastAuth.user
        /\ userProfile = "null"
        /\ connectionPromise = NoPromise

\* The listener ran for a session of u2 while the connection test a call is
\* waiting for was in flight, and left the profile cache and the memo empty
C9_Witness ==
    /\ lastAuth = [kind |-> "listener", user |-> "u2"]
    /\ currentUser = "u2"
    /\ userProfile = "null"
    /\ connectionPromise = NoPromise
    /\ \E p \in Probes : probe[p] \in InFlight
    /\ \E t \in Tasks : awaits[t].state = "pending"

\* C10: every auth transition (successful sign-in, successful sign-out,
\* auth-state-change event) empties the process-local caches; stated for the
\* profile cache, in the claim's favour: right after the transition replaced
\* the identity, userProfile is null, or at most the profile of the user the
\* transition installed, never the profile of another user.
C10_AuthTransitionEmptiesProfileCache ==
    lastAuth.kind # "none" => userProfile \in {"null", lastAuth.user}

\* ------------------------------------------- validation and error handling
\* C11: a save call whose argument fails validation (empty id, empty or
\* whitespace-only name) is rejected before any remote call is made for it:
\* such a call never waits for a connection test, a profile fetch or a
\* profile upsert, it has returned by the end of the step that made it.
C11_RejectedBeforeAnyRemoteCall ==
    \A t \in Tasks :
        (kind[t] \in SaveCalls /\ task[t] # "idle")
        => ~invalidFields(kind[t], input[t])

\* C12: no mutation with an invalid required field reaches the remote store,
\* in the locking variant as in the profile-caching one: every upsert sent
\* has a non-empty id and a name that is not blank, every delete sent has a
\* non-empty id.
C12_NoInvalidMutationSent ==
    /\ \A c \in Calls :
         sent[c].set
         => /\ sent[c].id # ""
            /\ sent[c].kind = "upsert" => sent[c].name \notin {"", " "}
    /\ \A t \in Tasks :
         /\ task[t] = "upsert" => (input[t].id # <<>> /\ trim(input[t].name) # <<>>)
         /\ task[t] = "delete" => input[t].id # <<>>

\* The step is call t running the body of its save: the operation function
\* called by executeWithErrorHandling
SaveBodyRuns(t) ==
    /\ kind[t] \in SaveCalls
    /\ task'[t] # task[t]
    /\ \/ task[t] = "profileDone"
       \/ task[t] = "testConnection" /\ awaits[t] = Resolved(TRUE) /\ currentUser = "null"

\* C13: no upsert of a save is sent while currentUser is null: the step that
\* sends one is made with an identity and gives the row the id of that
\* identity as user_id, and a save whose body runs without an identity, on
\* valid fields, is rejected with the authentication-required error.
C13_UpsertCarriesIdentity ==
    [][\A t \in Tasks :
          /\ (task[t] # "upsert" /\ task'[t] = "upsert")
             => /\ currentUser # "null"
                /\ input'[t].user_id = currentUser
                /\ currentUser' = currentUser
          /\ (SaveBodyRuns(t) /\ ~invalidFields(kind[t], input[t]) /\ currentUser = "null")
             => /\ task'[t] = "idle"
                /\ taskResult' = [call |-> kind[t], value |-> "Authentication required"]
      ]_vars

\* C13 witness: an upsert carrying user_id u1 is in flight, sent while u1 was
\* the identity, and the identity has gone since
C13_Witness ==
    \E t \in Tasks :
        /\ task[t] = "upsert"
        /\ kind[t] \in SaveCalls
        /\ input[t].user_id = "u1"
        /\ currentUser = "null"

\* C14: a mutating operation whose upsert or delete was answered with an
\* error rejects, whatever the code: a savePrepList whose upsert was answered
\* 23505 does not settle with a value.
C14_RemoteErrorRejects ==
    [][\A c \in Calls :
          (pc[c] = "fetchExisting" /\ pc'[c] # "fetchExisting")
          => outcome'[c].kind = "error"]_vars

\* C15: ensureUserProfile makes no remote call when there is no identity or
\* when the profile cache is filled, and returns null or the cached profile;
\* otherwise it fetches the profile by the id of the identity, and on a miss
\* upserts one for the identity.  When that upsert fails it returns null and
\* leaves the profile cache as it was, and the operation that called it still
\* runs its body: a load goes on to its query.
C15_ProfileFailureNotFatal ==
    [][\A t \in Tasks :
          /\ (task[t] = "testConnection" /\ task'[t] # task[t]
              /\ awaits[t] = Resolved(TRUE) /\ currentUser # "null")
             => IF userProfile = "null"
                THEN task'[t] = "profileFetch" /\ subject'[t] = currentUser
                ELSE task'[t] = "profileDone" /\ subject'[t] = userProfile
          /\ (task[t] = "session" /\ task'[t] \in {"profileFetch", "profileDone"}
              /\ currentUser = "null")
             => task'[t] = "profileDone" /\ subject'[t] = "null"
          /\ (task[t] = "profileFetch" /\ task'[t] = "profileUpsert")
             => currentUser # "null" /\ subject'[t] = currentUser
          /\ (task[t] = "profileUpsert" /\ task'[t] # task[t])
             => /\ task'[t] = "profileDone"
                /\ subject'[t] = "null" => userProfile' = userProfile
                /\ subject'[t] # "null" => userProfile' = subject[t]
          /\ (task[t] = "profileDone" /\ task'[t] # task[t] /\ kind[t] \in LoadCalls)
             => task'[t] = "query"
      ]_vars

\* C15 witness: with an identity present, ensureUserProfile has returned null
\* and left the cache empty, and the load that called it has sent its query
C15_Witness ==
    \E t \in Tasks :
        /\ kind[t] = "loadPrepLists"
        /\ task[t] = "query"
        /\ currentUser # "null"
        /\ userProfile = "null"

\* The positions of `rows` that hold a row with an id and a name, and the
\* k-th of them
Kept(rows) ==
    {i \in 1..Len(rows) : ~rows[i].isNull /\ rows[i].id # "" /\ rows[i].name # <<>>}
KeptAt(rows, k) ==
    CHOOSE i \in Kept(rows) : Cardinality({j \in Kept(rows) : j < i}) = k - 1

\* C16: for every sequence of rows the remote returns without error, a loader
\* returns exactly the rows that have a non-empty id and a non-empty name,
\* as domain objects and in the order of the answer; for zero rows and for
\* null data it returns the empty sequence.
C16_LoadersReturnValidRowsInOrder ==
    loaded.set =>
        IF remoteRows.isNull
        THEN loaded.rows = <<>>
        ELSE /\ Len(loaded.rows) = Cardinality(Kept(remoteRows.rows))
             /\ \A k \in 1..Len(loaded.rows) :
                  LET row == remoteRows.rows[KeptAt(remoteRows.rows, k)] IN
                  /\ loaded.rows[k].id = row.id
                  /\ loaded.rows[k].name = row.name
                  /\ loaded.rows[k].items \in {row.items, Arr(<<>>)}
                  /\ loaded.rows[k].items.tag = "array"

\* C16 witness: of two rows answered, the first without a name, a loader has
\* returned the second alone
C16_Witness ==
    /\ loaded.set
    /\ loaded.call = "loadEvents"
    /\ ~remoteRows.isNull
    /\ Len(remoteRows.rows) = 2
    /\ remoteRows.rows[1].id = "p1" /\ remoteRows.rows[1].name = <<>>
    /\ Len(loaded.rows) = 1
    /\ loaded.rows[1].id = "p2"

\* C17: with no identity, a load never rejects because of the row-level
\* security policy: no load made without identity returns to its caller the
\* access-denied error that a policy denial (42501) of its select turns into.
C17_UnauthenticatedLoadNeverRejects ==
    (taskResult.call \in LoadCalls /\ currentUser = "null")
    => taskResult.value # reclassify("42501")

\* ------------------------------------------------ diagnoseConnection: claims
ReportFields ==
    {"configured", "accessible", "authenticated", "tables", "errors", "user",
     "userProfile", "rlsStatus"}

\* C18: diagnoseConnection never rejects: whatever its session fetch, its
\* profile lookup, its table probes and its RLS and policy queries answer or
\* throw, it sends a bounded number of requests and returns a report with
\* all the fields configured, accessible, authenticated, tables, errors,
\* user, userProfile and rlsStatus.
C18_AlwaysCompleteReport ==
    /\ diag.pc # "rejected"
    /\ diag.requests <= 3 + 3 * MaxTables
    /\ diag.pc # "idle" => DOMAIN diagnosis = ReportFields
    /\ diag.pc = "returned"
       => /\ diagnosis.configured \in BOOLEAN
          /\ diagnosis.accessible \in BOOLEAN
          /\ diagnosis.authenticated \in BOOLEAN
          /\ diagnosis.user \in Sessions
          /\ diagnosis.userProfile \in Sessions
          /\ Len(diagnosis.tables) <= MaxTables
          /\ Len(diagnosis.rlsStatus) \in {0, MaxTables}

\* C18 witness: the session fetch threw, and the call has returned a report
\* whose only error entry is the one of the outer catch
C18_Witness ==
    /\ diag.pc = "returned"
    /\ ErrorEntry("session", 0) \in diag.failed
    /\ diagnosis.configured
    /\ diagnosis.errors = <<ErrorEntry("diagnosis", 0)>>

\* What an entry of errors that corresponds to a failed probe is about
Corresponding(about) ==
    CASE about = "session" -> {"session", "diagnosis"}
      [] about = "table" -> {"table"}
      [] OTHER -> {"rls", "policies"}

\* C19: every probe that failed inside diagnoseConnection, by an error value
\* or by an exception, has an entry in the errors of the report: the session
\* fetch, each table probe, each RLS and policy query.
C19_EveryFailedProbeRecorded ==
    diag.pc = "returned"
    => \A f \in diag.failed :
          \E k \in 1..Len(diagnosis.errors) :
              /\ diagnosis.errors[k].table = f.table
              /\ diagnosis.errors[k].about \in Corresponding(f.about)

\* C20: with a configuration secret missing, diagnoseConnection sends no
\* request and awaits nothing, and returns a report with configured false,
\* accessible false, no tables, and one errors entry for each missing secret.
C20_MissingSecretsReport ==
    ~(hasUrl /\ hasKey)
    => /\ diag.pc \in {"idle", "returned"}
       /\ diag.pc = "returned"
          => /\ diag.requests = 0
             /\ ~diagnosis.configured
             /\ ~diagnosis.accessible
             /\ diagnosis.tables = <<>>
             /\ Len(diagnosis.errors) = (IF hasUrl THEN 0 ELSE 1) + (IF hasKey THEN 0 ELSE 1)
             /\ ~hasUrl => \E k \in 1..Len(diagnosis.errors) :
                              diagnosis.errors[k].about = "VITE_SUPABASE_URL"
             /\ ~hasKey => \E k \in 1..Len(diagnosis.errors) :
                              diagnosis.errors[k].about = "VITE_SUPABASE_ANON_KEY"

\* C20 witness: both secrets are missing and the report holds two entries
C20_Witness ==
    /\ ~hasUrl /\ ~hasKey
    /\ diag.pc = "returned"
    /\ diag.requests = 0
    /\ Len(diagnosis.errors) = 2

\* C21: diagnoseConnection is read-only: no step of a call changes
\* currentUser, the profile cache userProfile or the memo connectionPromise,
\* and no step sends an upsert.
C21_DiagnoseReadOnly ==
    [][diag' # diag
       => /\ currentUser' = currentUser
          /\ userProfile' = userProfile
          /\ connectionPromise' = connectionPromise
          /\ diag'.pc # "profileUpsert"]_vars

\* C22: round trip of the mappers of a save: for an entity whose fields
\* have the types of its interface (a list of items, for an event a status
\* and a number of servings), the entity a save of the profile-caching
\* variant returns equals the entity it was given in every field but the
\* timestamps, where an absent field may come back as null or as the empty
\* list.
C22_RoundTrip ==
    (/\ wire.pc = "returned"
     /\ wire.variant = "profile-caching"
     /\ IF wire.call = "saveEvent"
        THEN /\ wire.entity.prepItems.tag = "array"
             /\ wire.entity.status # Undefined
             /\ wire.entity.totalServings.tag = "number"
        ELSE wire.entity.items.tag = "array")
    => LET e == wire.entity
           r == wire.result
           back(given, got) ==
               got = given \/ (given = Undefined /\ got \in {Null, Arr(<<>>)})
       IN /\ r.id = e.id
          /\ r.name = e.name
          /\ back(e.company_id, r.company_id)
          /\ IF wire.call = "saveEvent"
             THEN /\ r.date = e.date
                  /\ back(e.invoiceNumber, r.invoiceNumber)
                  /\ back(e.prepItems, r.prepItems)
                  /\ back(e.status, r.status)
                  /\ back(e.totalServings, r.totalServings)
             ELSE back(e.items, r.items)

C24_StoredNameIsTrimmed ==
    /\ (wire.pc \in {"answered", "returned"} /\ wire.call = "savePrepList")
       => /\ wire.data.id # ""
          /\ wire.data.name # <<>>
          /\ wire.data.name = trim(wire.entity.name)
    /\ (loaded.set /\ wire.pc = "returned")
       => \E i \in 1..Len(loaded.rows) :
             /\ loaded.rows[i].id = wire.entity.id
             /\ loaded.rows[i].name = trim(wire.entity.name)
             /\ loaded.rows[i].items.tag = "array"

\* C25: the total_servings saveEvent sends is a number and is not negative;
\* a string of digits is sent as the number it denotes, an absent or
\* unparsable input as 0.
C25_TotalServingsNonNegative ==
    (wire.pc \in {"sent", "answered", "returned"} /\ wire.call = "saveEvent")
    => LET given == wire.entity.totalServings
           sentAs == wire.row.total_servings
       IN /\ sentAs.tag = "number"
          /\ sentAs.val >= 0
          /\ given = Str(<<"5", "0">>) => sentAs = Num(50)
          /\ given \in {Undefined, NaN, Str(<<"5", "x">>)} => sentAs = Num(0)

\* C26: in the profile-caching variant the profile cache follows the
\* identity: whenever userProfile is set, currentUser is set and userProfile
\* is the profile of currentUser.
C26_ProfileMatchesIdentity ==
    userProfile # "null" => (currentUser # "null" /\ userProfile = currentUser)

\* C27: a savePrepList call that is answered with the value of the operation
\* of another call has had its own payload sent: the upsert of that other
\* call carried the id, the name and the items the call was made with.
C27_OwnPayloadSent ==
    [][\A c \in Calls, d \in Calls :
          (/\ pc[c] = "settled" /\ pc'[c] = "done"
           /\ outcome[c].kind = "value"
           /\ pc[d] = "joined" /\ waitFor[d] = c
           /\ op[d] = "savePrepList")
          => /\ sent[c].set
             /\ sent[c].id = heap[arg[d]].id
             /\ sent[c].name = heap[arg[d]].name
             /\ sent[c].items = heap[arg[d]].items]_vars

\* C28: after a savePrepList has failed, an identical retry made
\* while the caller still holds the failure leaves recentOperations as it
\* is, is not suppressed and goes on to the remote: it sends the probe of
\* its connection test, or has a connection to send its upsert on.
C28_RetryReachesRemote ==
    [][\A c \in Calls, d \in Calls :
          (/\ pc[c] = "done" /\ op[c] = "savePrepList"
           /\ result[c].kind = "error" /\ result[c].by = c
           /\ pc[d] = "idle" /\ pc'[d] # "idle"
           /\ op'[d] = "savePrepList" /\ arg'[d] = arg[c])
          => /\ recentOperations' = recentOperations
             /\ \/ pc'[d] = "tcProbe"
                \/ pc'[d] = "tcDone" /\ conn'[d]]_vars

\* C29: duplicate suppression drops only repeats of what was written: a
\* savePrepList whose id, name or items differ from those the last
\* successful save under its key sent is not answered with its input; it
\* goes on to executeWithLock.
C29_SuppressedOnlyIfWritten ==
    [][\A c \in Calls, o \in PrepObjs :
          LET operationKey == generateOperationKey("savePrepList", heap[o]) IN
          (/\ pc[c] = "idle" /\ pc'[c] # "idle"
           /\ op'[c] = "savePrepList" /\ arg'[c] = o
           /\ MapHas(recentOperations, operationKey)
           /\ recentOperations[operationKey].written
                 # <<heap[o].id, heap[o].name, heap[o].items>>)
          => pc'[c] # "done"]_vars

\* C30 as stated: the lists deduplicatePrepLists returns are a sub-sequence
\* of its input: some strictly increasing choice of positions of the input
\* gives the output.
C30_SubSequence ==
    (loaded.set /\ loaded.call = "deduplicatePrepLists")
    => LET inp == remoteRows.rows
           out == loaded.rows
       IN \E f \in [1..Len(out) -> 1..Len(inp)] :
             /\ \A j \in 1..Len(out) : out[j] = inp[f[j]]
             /\ \A j \in 1..Len(out), k \in 1..Len(out) : j < k => f[j] < f[k]

\* C30: deduplicatePrepLists returns lists of its input, one for each pair
\* (name, company_id or 'no-company') the input holds: the first of the
\* lists of the pair that have the most items, at the place, among the
\* pairs, of the first occurrence of its pair; an input without a repeated
\* pair is returned as it is.
C30_OnePerPairInFirstOccurrenceOrder ==
    (loaded.set /\ loaded.call = "deduplicatePrepLists")
    => LET inp == remoteRows.rows
           out == loaded.rows
           pair(l) == <<l.name, orElse(l.company_id, Str(<<"no-company">>))>>
           count(l) == IF l.items.tag = "array" THEN Len(l.items.elems) ELSE 0
           same(p) == {i \in 1..Len(inp) : pair(inp[i]) = p}
           first(p) == CHOOSE i \in same(p) : \A h \in same(p) : i <= h
           best(p) == CHOOSE i \in same(p) :
                         /\ \A h \in same(p) : count(inp[h]) <= count(inp[i])
                         /\ \A h \in same(p) :
                               count(inp[h]) = count(inp[i]) => i <= h
       IN /\ \A i \in 1..Len(inp) : \E j \in 1..Len(out) : pair(out[j]) = pair(inp[i])
          /\ \A j \in 1..Len(out), k \in 1..Len(out) :
                j # k => pair(out[j]) # pair(out[k])
          /\ \A j \in 1..Len(out) :
                /\ same(pair(out[j])) # {}
                /\ out[j] = inp[best(pair(out[j]))]
          /\ \A j \in 1..Len(out), k \in 1..Len(out) :
                j < k => first(pair(out[j])) < first(pair(out[k]))
          /\ (\A i \in 1..Len(inp), h \in 1..Len(inp) :
                 i # h => pair(inp[i]) # pair(inp[h]))
             => out = inp

\* Of two lists of one pair the later one, which has more items, is kept,
\* and stands before the list of another pair that came between them
C30_Witness ==
    /\ loaded.set
    /\ loaded.call = "deduplicatePrepLists"
    /\ Len(remoteRows.rows) = 3
    /\ Len(loaded.rows) = 2
    /\ loaded.rows[1] = remoteRows.rows[3]
    /\ loaded.rows[2] = remoteRows.rows[2]
    /\ loaded.rows[1] # remoteRows.rows[1]
====
